---- MODULE Spec2Model ----
(***************************************************************************)
(* Model of the photo relay bot (Wwwoper/auto-reposter-bot): the request   *)
(* rate limiter and the publish pipeline of src/vk/api.py, the statistics  *)
(* aggregator of src/utils/stats.py and the file readiness / validation    *)
(* checks of src/utils/file_validator.py.                                  *)
(*                                                                         *)
(* Each component has its own specification over the shared variable       *)
(* tuple; a component's actions leave the other components unchanged.      *)
(***************************************************************************)
EXTENDS Integers, Sequences, FiniteSets, TLC

(***************************************************************************)
(* Bounds of the model                                                     *)
(***************************************************************************)
NumTasks == 3
MaxAcquires == 5
MaxClock == 13
MaxDays == 3
DayLen == 2
MaxRecords == 11
MaxAttempts == 3
MaxFileSize == 3
SizeMargin == 1
NumHandlers == 2
NumFileIds == 2
HandlerDays == 2
MaxRateSetting == 4
NumSweepFiles == 2
MaxSweepNow == 5

(***************************************************************************)
(* Program constants.  Time of the rate limiter is counted in tenths of a  *)
(* second: 1.0 s is 10 ticks and 1.1 s is 11 ticks.                        *)
(***************************************************************************)
K == 3
DefaultRateLimit == 3
OneSecond == 10
SleepTarget == 11
report_interval == 10
NoDate == -1
max_retries == 3
cleanup_age_hours == 1
TicksPerHour == 2

\* src/config/constants.py, scaled: sizes are counted in units in which the
\* lower bound is 1 and the upper bound is 4
MIN_FILE_SIZE_BYTES == 1
MAX_FILE_SIZE_BYTES == 4
ALLOWED_EXTENSIONS ==
    { <<".", "j", "p", "g">>, <<".", "j", "p", "e", "g">>, <<".", "p", "n", "g">>,
      <<".", "g", "i", "f">>, <<".", "b", "m", "p">> }

VARIABLES
    \* ---- VKAPI rate limiter (src/vk/api.py) ----
    clock,          \* datetime.now() of the limiter, in tenths of a second
    request_times,  \* VKAPI._request_times, deque(maxlen=3)
    rl_pc,          \* per task: "idle" or "sleeping" (inside asyncio.sleep)
    rl_wake,        \* per task: earliest clock at which the sleep returns
    acq_log,        \* history: completion time of every acquire, in order
    \* ---- Statistics (src/utils/stats.py) ----
    now_msk,        \* datetime.now(moscow_tz), in ticks of 1/DayLen day
    stats,          \* the fields of the Statistics instance
    hist,           \* history: outcomes recorded in all and since midnight
    st_op,          \* the last Statistics operation that ran
    st_ret,         \* the last value returned by should_log_stats
    \* ---- FileValidator.wait_for_file_ready (src/utils/file_validator.py) ----
    wf_max_attempts, \* the max_attempts argument
    wf_attempt,     \* the loop variable: index of the next attempt
    wf_prev_size,   \* prev_size
    wf_pc,          \* "loop" or "done"
    wf_ret,         \* the value returned
    wf_obs,         \* history: what each attempt found at the path
    \* ---- FileValidator.validate_image_file ----
    vf_file,        \* the file at the path: exists, suffix, size, stat failure
    vf_pc,          \* "call" or "done"
    vf_ret,         \* the value returned
    vf_checks,      \* history: the checks the call evaluated, in order
    \* ---- VKAPI.create_post_from_wall (src/vk/api.py) ----
    pub_pc,         \* position of the publish: "start", "rate_sleep",
                    \* "validate", "get_url", "upload", "save", "post",
                    \* "cleanup", "returned" or "raised"
    pub_wake,       \* earliest clock at which the limiter's sleep returns
    pub_file,       \* the local file as the re-validation finds it
    pub_on_disk,    \* whether the local file is on disk
    pub_attempt,    \* _upload_image: the loop variable attempt
    pub_up,         \* _upload_image: "idle", "running", "returned", "raised"
    pub_up_ret,     \* _upload_image: the (server, photo, hash) returned
    pub_uploads,    \* history: the outcome of each upload attempt
    pub_backoff,    \* history: seconds spent in time.sleep between attempts
    pub_steps,      \* history: the outcome of each of the other steps
    pub_requests,   \* history: requests issued, per remote method
    pub_exc,        \* the exception that reached the handlers of publish
    pub_result,     \* the value returned by create_post_from_wall
    pub_trace,      \* history: limiter calls, remote requests and cleanup, in order
    \* the photo handler
    is_shutting_down, \* the module-level flag _is_shutting_down
    loop_owner,     \* the handler that keeps the event loop's thread, or NoOwner
    disk,           \* for each file_id, whether temp_dir / f"{file_id}.jpg" exists
    task,           \* for each handler, its position and what it has done
    reports,        \* number of periodic statistics lines logged
    \* the settings
    rate_limit_per_second, \* Settings.rate_limit_per_second
    \* ---- the reads of Statistics (src/utils/stats.py) ----
    st_val,         \* the number returned by the last read, as a fraction
    \* ---- prepare_file_for_upload (src/utils/file_validator.py) ----
    prep_pc,        \* "ready", "validate", "hash" or "returned"
    prep_ret,       \* the value returned
    prep_hash,      \* what calculate_file_hash returned, "none" before it
    prep_calls,     \* history: the steps called, in order
    \* ---- cleanup_old_temp_files (src/main.py) ----
    sw_now,         \* datetime.now().timestamp(), in ticks
    sw_files,       \* for each path of temp_dir: present or not, and st_mtime
    sw_pc,          \* "idle", or "sweep" inside the loop over the files
    sw_todo,        \* the paths the running sweep has still to visit
    sw_at,          \* now, as read at the start of the running sweep
    sw_err,         \* the paths on which the running or last sweep met an error
    sw_log          \* history: every unlink, with the age it was decided on

rateVars == <<clock, request_times, rl_pc, rl_wake, acq_log>>
statVars == <<now_msk, stats, hist, st_op, st_ret>>
readyVars == <<wf_max_attempts, wf_attempt, wf_prev_size, wf_pc, wf_ret, wf_obs>>
validVars == <<vf_file, vf_pc, vf_ret, vf_checks>>
pubVars == <<pub_pc, pub_wake, pub_file, pub_on_disk, pub_attempt, pub_up,
             pub_up_ret, pub_uploads, pub_backoff, pub_steps, pub_requests,
             pub_exc, pub_result, pub_trace>>

handVars == <<is_shutting_down, loop_owner, disk, task, reports>>
confVars == <<rate_limit_per_second>>
readVars == <<st_val>>
prepVars == <<prep_pc, prep_ret, prep_hash, prep_calls>>
sweepVars == <<sw_now, sw_files, sw_pc, sw_todo, sw_at, sw_err, sw_log>>

vars == <<clock, request_times, rl_pc, rl_wake, acq_log,
          now_msk, stats, hist, st_op, st_ret,
          wf_max_attempts, wf_attempt, wf_prev_size, wf_pc, wf_ret, wf_obs,
          vf_file, vf_pc, vf_ret, vf_checks,
          pub_pc, pub_wake, pub_file, pub_on_disk, pub_attempt, pub_up,
          pub_up_ret, pub_uploads, pub_backoff, pub_steps, pub_requests,
          pub_exc, pub_result, pub_trace,
          is_shutting_down, loop_owner, disk, task, reports,
          rate_limit_per_second, st_val,
          prep_pc, prep_ret, prep_hash, prep_calls,
          sw_now, sw_files, sw_pc, sw_todo, sw_at, sw_err, sw_log>>

Tasks == 1..NumTasks

(***************************************************************************)
(* VKAPI._rate_limit                                                       *)
(***************************************************************************)
\* deque(maxlen=3).append: a full deque drops its leftmost element
DequeAppend(q, x) ==
    IF Len(q) = K THEN Append(Tail(q), x) ELSE Append(q, x)

\* the sleep is entered only with a full window whose oldest entry is young
MustSleep(q, now) ==
    /\ Len(q) = K
    /\ (now - q[1]) < OneSecond

\* a sleep up to the end of the second only
DelayNoMargin(q, now) == OneSecond - 1 - (now - q[1])

\* delay = 1.1 - elapsed
Delay(q, now) == SleepTarget - (now - q[1])

InFlight == Cardinality({t \in Tasks : rl_pc[t] = "sleeping"})

InitRate ==
    /\ clock = 0
    /\ request_times = <<>>
    /\ rl_pc = [t \in Tasks |-> "idle"]
    /\ rl_wake = [t \in Tasks |-> 0]
    /\ acq_log = <<>>

\* a task calls _rate_limit and runs up to its first suspension point:
\* either it suspends in asyncio.sleep, or it appends at once and returns
RateLimitCall(t) ==
    /\ rl_pc[t] = "idle"
    /\ Len(acq_log) + InFlight < MaxAcquires
    /\ IF MustSleep(request_times, clock)
       THEN /\ rl_pc' = [rl_pc EXCEPT ![t] = "sleeping"]
            /\ rl_wake' = [rl_wake EXCEPT ![t] = clock + Delay(request_times, clock)]
            /\ UNCHANGED <<request_times, acq_log>>
       ELSE /\ request_times' = DequeAppend(request_times, clock)
            /\ acq_log' = Append(acq_log, clock)
            /\ UNCHANGED <<rl_pc, rl_wake>>
    /\ UNCHANGED clock

\* asyncio.sleep(delay) returns no earlier than the delay; the task then
\* appends datetime.now() without looking at the window again
RateLimitWake(t) ==
    /\ rl_pc[t] = "sleeping"
    /\ clock >= rl_wake[t]
    /\ request_times' = DequeAppend(request_times, clock)
    /\ acq_log' = Append(acq_log, clock)
    /\ rl_pc' = [rl_pc EXCEPT ![t] = "idle"]
    /\ UNCHANGED <<clock, rl_wake>>

TickClock ==
    /\ clock < MaxClock
    /\ clock' = clock + 1
    /\ UNCHANGED <<request_times, rl_pc, rl_wake, acq_log>>

\* Settings.from_env and Settings.validate: any positive
\* RATE_LIMIT_PER_SECOND is accepted
InitConfig == rate_limit_per_second \in 1..MaxRateSetting

(***************************************************************************)
(* Statistics                                                              *)
(***************************************************************************)
MaxNow == MaxDays * DayLen - 1

\* now_msk.replace(hour=0, minute=0, second=0, microsecond=0)
Midnight(now) == (now \div DayLen) * DayLen

\* self.daily_reset_date is None or self.daily_reset_date < today_msk
NeedsResetStrictOff(s, today_msk) ==
    \/ s.daily_reset_date = NoDate
    \/ s.daily_reset_date <= today_msk

NeedsReset(s, today_msk) ==
    \/ s.daily_reset_date = NoDate
    \/ s.daily_reset_date < today_msk

\* a rollover that clears the all-time counters with the daily ones
check_and_reset_daily_clears_totals(s, now) ==
    IF NeedsReset(s, Midnight(now))
    THEN [s EXCEPT !.total_success = 0,
                   !.total_errors = 0,
                   !.daily_success = 0,
                   !.daily_errors = 0,
                   !.daily_reset_date = Midnight(now)]
    ELSE s

\* a rollover that empties the all-time bucket in place of the daily one
check_and_reset_daily_wrong_bucket(s, now) ==
    IF NeedsReset(s, Midnight(now))
    THEN [s EXCEPT !.total_success = 0,
                   !.total_errors = 0,
                   !.daily_reset_date = Midnight(now)]
    ELSE s

\* a rollover that empties the bucket and leaves the boundary where it was
check_and_reset_daily_keeps_date(s, now) ==
    IF NeedsReset(s, Midnight(now))
    THEN [s EXCEPT !.daily_success = 0,
                   !.daily_errors = 0]
    ELSE s

\* a rollover check that never zeroes the daily counters
check_and_reset_daily_keep(s, now) ==
    IF NeedsReset(s, Midnight(now))
    THEN [s EXCEPT !.daily_reset_date = Midnight(now)]
    ELSE s

check_and_reset_daily(s, now) ==
    IF NeedsReset(s, Midnight(now))
    THEN [s EXCEPT !.daily_success = 0,
                   !.daily_errors = 0,
                   !.daily_reset_date = Midnight(now)]
    ELSE s

\* a forced reset that forgets to move the boundary
reset_daily_stats_stale(s, now) ==
    [s EXCEPT !.daily_success = 0,
              !.daily_errors = 0]

\* reset_daily_stats: unconditional
reset_daily_stats(s, now) ==
    [s EXCEPT !.daily_success = 0,
              !.daily_errors = 0,
              !.daily_reset_date = Midnight(now)]

\* a report test that looks at the daily bucket
should_log_stats_daily(s) ==
    LET total_posts == s.daily_success + s.daily_errors
    IN  total_posts > 0 /\ total_posts % report_interval = 0

should_log_stats(s) ==
    LET total_posts == s.total_success + s.total_errors
    IN  total_posts > 0 /\ total_posts % report_interval = 0

\* Statistics.__init__ before its closing _check_and_reset_daily()
NewStatistics ==
    [total_success |-> 0, total_errors |-> 0,
     daily_success |-> 0, daily_errors |-> 0,
     daily_reset_date |-> NoDate]

NoHistory ==
    [total_success |-> 0, total_errors |-> 0,
     daily_success |-> 0, daily_errors |-> 0]

\* the instance is constructed at any time of the first day
InitStats ==
    /\ now_msk \in 0..(DayLen - 1)
    /\ stats = check_and_reset_daily(NewStatistics, now_msk)
    /\ hist = NoHistory
    /\ st_op = "init"
    /\ st_ret = FALSE

Recorded == hist.total_success + hist.total_errors

\* the wall clock advances; crossing midnight empties the history of the day
StatsTick ==
    /\ now_msk < MaxNow
    /\ now_msk' = now_msk + 1
    /\ hist' = IF Midnight(now_msk + 1) # Midnight(now_msk)
               THEN [hist EXCEPT !.daily_success = 0, !.daily_errors = 0]
               ELSE hist
    /\ st_op' = "tick"
    /\ UNCHANGED <<stats, st_ret>>

IncrementSuccess ==
    /\ Recorded < MaxRecords
    /\ LET s == check_and_reset_daily(stats, now_msk)
       IN  stats' = [s EXCEPT !.total_success = @ + 1, !.daily_success = @ + 1]
    /\ hist' = [hist EXCEPT !.total_success = @ + 1, !.daily_success = @ + 1]
    /\ st_op' = "increment_success"
    /\ UNCHANGED <<now_msk, st_ret>>

IncrementError ==
    /\ Recorded < MaxRecords
    /\ LET s == check_and_reset_daily(stats, now_msk)
       IN  stats' = [s EXCEPT !.total_errors = @ + 1, !.daily_errors = @ + 1]
    /\ hist' = [hist EXCEPT !.total_errors = @ + 1, !.daily_errors = @ + 1]
    /\ st_op' = "increment_error"
    /\ UNCHANGED <<now_msk, st_ret>>

\* should_log_stats reads the totals without a rollover check
ShouldLogStats ==
    /\ st_ret' = should_log_stats(stats)
    /\ st_op' = "should_log_stats"
    /\ UNCHANGED <<now_msk, stats, hist>>

\* get_dict / get_report / get_log_stats start with the rollover check
GetDict ==
    /\ stats' = check_and_reset_daily(stats, now_msk)
    /\ st_op' = "get_dict"
    /\ UNCHANGED <<now_msk, hist, st_ret>>

\* the forced rollover of an external scheduler
ResetDailyStats ==
    /\ stats' = reset_daily_stats(stats, now_msk)
    /\ st_op' = "reset_daily_stats"
    /\ UNCHANGED <<now_msk, hist, st_ret>>

\* a returned number, kept as an exact fraction num / den
Fraction(n, d) == [num |-> n, den |-> d]

NoValue == Fraction(0, 1)

\* get_success_rate without the test for an empty bucket
get_success_rate_unguarded(s, use_daily) ==
    LET total == IF use_daily THEN s.daily_success + s.daily_errors
                 ELSE s.total_success + s.total_errors
        success == IF use_daily THEN s.daily_success ELSE s.total_success
    IN  Fraction(success * 100, total)

\* get_success_rate: the bucket is read as it stands, 0.0 when it is empty,
\* (success / total) * 100 otherwise
get_success_rate(s, use_daily) ==
    LET total == IF use_daily THEN s.daily_success + s.daily_errors
                 ELSE s.total_success + s.total_errors
        success == IF use_daily THEN s.daily_success ELSE s.total_success
    IN  IF total = 0 THEN Fraction(0, 1) ELSE Fraction(success * 100, total)

\* get_total_posts: the bucket is read as it stands
get_total_posts(s, use_daily) ==
    IF use_daily THEN s.daily_success + s.daily_errors
    ELSE s.total_success + s.total_errors

\* a call of get_success_rate; the instance is not written
GetSuccessRate(use_daily) ==
    /\ st_val' = get_success_rate(stats, use_daily)
    /\ st_op' = IF use_daily THEN "get_success_rate_daily"
                ELSE "get_success_rate"
    /\ UNCHANGED <<now_msk, stats, hist, st_ret>>

\* a call of get_total_posts; the instance is not written
GetTotalPosts(use_daily) ==
    /\ st_val' = Fraction(get_total_posts(stats, use_daily), 1)
    /\ st_op' = IF use_daily THEN "get_total_posts_daily"
                ELSE "get_total_posts"
    /\ UNCHANGED <<now_msk, stats, hist, st_ret>>

(***************************************************************************)
(* FileValidator.wait_for_file_ready                                       *)
(***************************************************************************)
\* what one attempt can find at the path:
\*   absent   - path.exists() is false
\*   empty    - st_size is 0
\*   nodata   - st_size is positive but f.read() returns no bytes
\*   ioerror  - stat() or open() raises IOError / OSError
\*   ok       - a successful read of a file of the given positive size
Findings ==
    [kind : {"absent", "empty", "nodata", "ioerror"}, size : {0}]
    \cup [kind : {"ok"}, size : 1..MaxFileSize]

\* a stability test off by a comparison
SizeStableLoose(attempt, current_size, prev_size) ==
    attempt > 0 /\ current_size >= prev_size

\* attempt > 0 and current_size == prev_size
SizeStable(attempt, current_size, prev_size) ==
    attempt > 0 /\ current_size = prev_size

\* the call starts with prev_size = 0 and the loop at attempt 0
InitReady ==
    /\ wf_max_attempts \in 0..MaxAttempts
    /\ wf_attempt = 0
    /\ wf_prev_size = 0
    /\ wf_pc = "loop"
    /\ wf_ret = FALSE
    /\ wf_obs = <<>>

\* one iteration of the for loop, up to and including its sleep
WaitAttempt(f) ==
    /\ wf_pc = "loop"
    /\ wf_attempt < wf_max_attempts
    /\ wf_obs' = Append(wf_obs, f)
    /\ IF f.kind = "ok" /\ SizeStable(wf_attempt, f.size, wf_prev_size)
       THEN /\ wf_pc' = "done"
            /\ wf_ret' = TRUE
            /\ UNCHANGED <<wf_attempt, wf_prev_size>>
       ELSE /\ wf_prev_size' = IF f.kind = "ok" THEN f.size ELSE wf_prev_size
            /\ wf_attempt' = wf_attempt + 1
            /\ UNCHANGED <<wf_pc, wf_ret>>
    /\ UNCHANGED wf_max_attempts

\* the loop is exhausted: return False
WaitExhausted ==
    /\ wf_pc = "loop"
    /\ wf_attempt = wf_max_attempts
    /\ wf_pc' = "done"
    /\ wf_ret' = FALSE
    /\ UNCHANGED <<wf_max_attempts, wf_attempt, wf_prev_size, wf_obs>>

(***************************************************************************)
(* FileValidator.validate_image_file                                       *)
(***************************************************************************)
\* str.lower() on the characters that occur in the suffixes of the model
ToLower ==
    [c \in {"J", "P", "G", "E", "N", "T", "X"} |->
        CASE c = "J" -> "j" [] c = "P" -> "p" [] c = "G" -> "g" [] c = "E" -> "e"
          [] c = "N" -> "n" [] c = "T" -> "t" [] c = "X" -> "x"]

LowerChar(c) == IF c \in DOMAIN ToLower THEN ToLower[c] ELSE c

Lower(str) == [i \in 1..Len(str) |-> LowerChar(str[i])]

\* the suffixes (path.suffix) of the files handed to the validator
Suffixes ==
    { <<".", "j", "p", "g">>, <<".", "J", "P", "G">>, <<".", "J", "p", "g">>,
      <<".", "j", "p", "e", "g">>, <<".", "P", "n", "g">>,
      <<".", "t", "x", "t">>, <<".", "T", "X", "T">>, <<>> }

\* a file: whether path.exists(), its suffix, its st_size, and whether
\* stat() raises (the file went away after the existence check)
Files ==
    [exists : BOOLEAN, suffix : Suffixes,
     size : 0..(MAX_FILE_SIZE_BYTES + SizeMargin), stat_fails : BOOLEAN]

\* the order of checks of VKAPI._validate_image: existence, size, extension
validate_image_file_size_first(f) ==
    IF ~f.exists
    THEN [ret |-> FALSE, checks |-> <<"exists">>]
    ELSE IF f.stat_fails
    THEN [ret |-> FALSE, checks |-> <<"exists", "stat">>]
    ELSE IF f.size < MIN_FILE_SIZE_BYTES
    THEN [ret |-> FALSE, checks |-> <<"exists", "stat", "min_size">>]
    ELSE IF f.size > MAX_FILE_SIZE_BYTES
    THEN [ret |-> FALSE, checks |-> <<"exists", "stat", "min_size", "max_size">>]
    ELSE IF Lower(f.suffix) \notin ALLOWED_EXTENSIONS
    THEN [ret |-> FALSE,
          checks |-> <<"exists", "stat", "min_size", "max_size", "extension">>]
    ELSE [ret |-> TRUE,
          checks |-> <<"exists", "stat", "min_size", "max_size", "extension">>]

\* validate_image_file: the value returned and the checks evaluated
validate_image_file(f) ==
    IF ~f.exists
    THEN [ret |-> FALSE, checks |-> <<"exists">>]
    ELSE IF Lower(f.suffix) \notin ALLOWED_EXTENSIONS
    THEN [ret |-> FALSE, checks |-> <<"exists", "extension">>]
    ELSE IF f.stat_fails
    THEN [ret |-> FALSE, checks |-> <<"exists", "extension", "stat">>]
    ELSE IF f.size < MIN_FILE_SIZE_BYTES
    THEN [ret |-> FALSE, checks |-> <<"exists", "extension", "stat", "min_size">>]
    ELSE IF f.size > MAX_FILE_SIZE_BYTES
    THEN [ret |-> FALSE,
          checks |-> <<"exists", "extension", "stat", "min_size", "max_size">>]
    ELSE [ret |-> TRUE,
          checks |-> <<"exists", "extension", "stat", "min_size", "max_size">>]

InitValid ==
    /\ vf_file \in Files
    /\ vf_pc = "call"
    /\ vf_ret = FALSE
    /\ vf_checks = <<>>

ValidateImageFile ==
    /\ vf_pc = "call"
    /\ vf_pc' = "done"
    /\ vf_ret' = validate_image_file(vf_file).ret
    /\ vf_checks' = validate_image_file(vf_file).checks
    /\ UNCHANGED vf_file

(***************************************************************************)
(* VKAPI.create_post_from_wall and its steps                               *)
(***************************************************************************)
\* the exception classes the steps raise; all derive from Exception
ExceptionClasses ==
    {"KeyError", "IndexError", "NameError", "ValueError", "OSError",
     "RequestException", "Exception"}

\* the return values of create_post_from_wall: None, or the wall.post
\* response, which carries a "response" key or not
NoResult == [kind |-> "None", has_response |-> FALSE]

PostResult(has_response) == [kind |-> "post", has_response |-> has_response]

\* (server, photo, hash) of an upload response
NoPayload == [server |-> 0, photo |-> "", hash |-> ""]

Payloads == [server : 1..2, photo : {"photo_a", "photo_b"}, hash : {"hash_a"}]

\* what one upload attempt can meet:
\*   ok         - a response with a non-empty photo token
\*   empty      - a response whose photo token is missing or empty
\*   neterr     - requests.RequestException (connection, timeout, HTTP status)
\*   unexpected - any other exception after the request was sent
\*   openerr    - open(file_path) fails, no request is sent
UploadOutcomes ==
    [kind : {"empty", "neterr", "unexpected", "openerr"}, payload : {NoPayload}]
    \cup [kind : {"ok"}, payload : Payloads]

\* the responses of the three session.post steps:
\*   ok, error (an "error" key), missing (an expected key is absent),
\*   empty_list (saveWallPhoto returns no item), noresponse (wall.post
\*   returns neither "error" nor "response"), neterr, unexpected
GetUrlOutcomes == {"ok", "error", "missing", "neterr", "unexpected"}
SaveOutcomes == {"ok", "error", "missing", "empty_list", "neterr", "unexpected"}
PostOutcomes == {"ok", "noresponse", "error", "neterr", "unexpected"}
CleanupOutcomes == {"removed", "missing", "error"}

\* steps that do not look for the "error" key of a response
step_raises_ignores_error(outcome) ==
    CASE outcome = "missing" -> "KeyError"
      [] outcome = "empty_list" -> "IndexError"
      [] outcome = "neterr" -> "RequestException"
      [] outcome = "unexpected" -> "Exception"
      [] OTHER -> "none"

\* the exception a session.post step ends with, "none" if it returns; the
\* raise statements of the error branches name an undefined error_code,
\* so they end with NameError
step_raises(outcome) ==
    CASE outcome = "error" -> "NameError"
      [] outcome = "missing" -> "KeyError"
      [] outcome = "empty_list" -> "IndexError"
      [] outcome = "neterr" -> "RequestException"
      [] outcome = "unexpected" -> "Exception"
      [] OTHER -> "none"

\* the exception _upload_image raises on its final attempt
upload_raises(kind) ==
    CASE kind = "empty" -> "ValueError"
      [] kind = "neterr" -> "RequestException"
      [] kind = "openerr" -> "OSError"
      [] OTHER -> "Exception"

\* an upload loop that raises on the first empty photo token
upload_step_no_retry(attempt, kind) ==
    IF kind = "ok" THEN "return"
    ELSE IF kind = "empty" THEN "raise"
    ELSE IF attempt < max_retries THEN "retry"
    ELSE "raise"

\* an upload loop that never gives up
upload_step_retries_forever(attempt, kind) ==
    IF kind = "ok" THEN "return"
    ELSE "retry"

\* an upload loop that gives up one attempt early
upload_step_gives_up_early(attempt, kind) ==
    IF kind = "ok" THEN "return"
    ELSE IF attempt + 1 < max_retries THEN "retry"
    ELSE "raise"

\* what the body of the upload loop does with the outcome of an attempt
upload_step(attempt, kind) ==
    IF kind = "ok" THEN "return"
    ELSE IF attempt < max_retries THEN "retry"
    ELSE "raise"

\* 2 ** n
RECURSIVE Pow2(_)
Pow2(n) == IF n = 0 THEN 1 ELSE 2 * Pow2(n - 1)

\* a delay computed from the attempt number itself
wait_time_from_attempt(attempt) == Pow2(attempt)

\* wait_time = 2 ** (attempt - 1)
wait_time(attempt) == Pow2(attempt - 1)

\* a cleanup that lets the error of os.remove out
cleanup_file_escalates(outcome) ==
    CASE outcome = "missing" -> "none"
      [] outcome = "error" -> "OSError"
      [] OTHER -> "none"

\* the exception _cleanup_file ends with: FileNotFoundError and every other
\* Exception of os.remove are caught and logged, so it always returns
cleanup_file(outcome) ==
    CASE outcome = "missing" -> "none"
      [] outcome = "error" -> "none"
      [] OTHER -> "none"

\* handlers that catch KeyError only
create_post_except_key_only(e, on_disk) ==
    IF e = "KeyError"
    THEN [pc |-> "returned", on_disk |-> on_disk]
    ELSE [pc |-> "raised", on_disk |-> on_disk]

\* handlers that remove the file on failure
create_post_except_cleanup(e, on_disk) ==
    IF e \in ExceptionClasses
    THEN [pc |-> "returned", on_disk |-> FALSE]
    ELSE [pc |-> "raised", on_disk |-> on_disk]

\* the except clauses of create_post_from_wall: KeyError, then Exception;
\* both log and return None, neither touches the file
create_post_except(e, on_disk) ==
    IF e = "KeyError"
    THEN [pc |-> "returned", on_disk |-> on_disk]
    ELSE IF e \in ExceptionClasses
    THEN [pc |-> "returned", on_disk |-> on_disk]
    ELSE [pc |-> "raised", on_disk |-> on_disk]

NoSteps ==
    [validate |-> "none", get_url |-> "none", save |-> "none",
     post |-> "none", cleanup |-> "none"]

NoRequests == [acquire |-> 0, get_url |-> 0, upload |-> 0, save |-> 0, post |-> 0]

\* a publish is called for a downloaded file; the rate window is empty or
\* holds three timestamps of this instant
InitPublish ==
    /\ clock = 0
    /\ request_times \in {<<>>, <<0, 0, 0>>}
    /\ acq_log = request_times
    /\ rl_pc = [t \in Tasks |-> "idle"]
    /\ rl_wake = [t \in Tasks |-> 0]
    /\ pub_pc = "start"
    /\ pub_wake = 0
    /\ pub_file \in Files
    /\ pub_on_disk = pub_file.exists
    /\ pub_attempt = 0
    /\ pub_up = "idle"
    /\ pub_up_ret = NoPayload
    /\ pub_uploads = <<>>
    /\ pub_backoff = 0
    /\ pub_steps = NoSteps
    /\ pub_requests = NoRequests
    /\ pub_exc = "none"
    /\ pub_result = NoResult
    /\ pub_trace = <<>>

\* an exception reaches the except clauses of create_post_from_wall
Fail(e) ==
    /\ pub_pc' = create_post_except(e, pub_on_disk).pc
    /\ pub_on_disk' = create_post_except(e, pub_on_disk).on_disk
    /\ pub_exc' = e
    /\ pub_result' = NoResult

\* await self._rate_limit(), up to its suspension point
PubRateLimit ==
    /\ pub_pc = "start"
    /\ pub_requests' = [pub_requests EXCEPT !.acquire = @ + 1]
    /\ pub_trace' = Append(pub_trace, "acquire")
    /\ IF MustSleep(request_times, clock)
       THEN /\ pub_pc' = "rate_sleep"
            /\ pub_wake' = clock + Delay(request_times, clock)
            /\ UNCHANGED <<request_times, acq_log>>
       ELSE /\ request_times' = DequeAppend(request_times, clock)
            /\ acq_log' = Append(acq_log, clock)
            /\ pub_pc' = "validate"
            /\ UNCHANGED pub_wake
    /\ UNCHANGED <<clock, rl_pc, rl_wake, pub_file, pub_on_disk, pub_attempt,
                   pub_up, pub_up_ret, pub_uploads, pub_backoff, pub_steps,
                   pub_exc, pub_result>>

\* time passes while the publish is suspended in the limiter's sleep
PubClockTick ==
    /\ pub_pc = "rate_sleep"
    /\ clock < MaxClock
    /\ clock' = clock + 1
    /\ UNCHANGED <<request_times, rl_pc, rl_wake, acq_log, pubVars>>

\* the limiter's sleep returns and the timestamp is appended
PubRateWake ==
    /\ pub_pc = "rate_sleep"
    /\ clock >= pub_wake
    /\ request_times' = DequeAppend(request_times, clock)
    /\ acq_log' = Append(acq_log, clock)
    /\ pub_pc' = "validate"
    /\ UNCHANGED <<clock, rl_pc, rl_wake, pub_wake, pub_file, pub_on_disk,
                   pub_attempt, pub_up, pub_up_ret, pub_uploads, pub_backoff,
                   pub_steps, pub_requests, pub_trace, pub_exc, pub_result>>

\* the re-validation; raises stands for an exception escaping the validator
PubValidate(raises) ==
    /\ pub_pc = "validate"
    /\ IF raises
       THEN /\ Fail("OSError")
            /\ pub_steps' = [pub_steps EXCEPT !.validate = "raised"]
       ELSE IF ~validate_image_file(pub_file).ret
       THEN /\ pub_pc' = "returned"
            /\ pub_result' = NoResult
            /\ pub_steps' = [pub_steps EXCEPT !.validate = "invalid"]
            /\ UNCHANGED <<pub_on_disk, pub_exc>>
       ELSE /\ pub_pc' = "get_url"
            /\ pub_steps' = [pub_steps EXCEPT !.validate = "ok"]
            /\ UNCHANGED <<pub_on_disk, pub_exc, pub_result>>
    /\ UNCHANGED <<rateVars, pub_wake, pub_file, pub_attempt, pub_up, pub_up_ret,
                   pub_uploads, pub_backoff, pub_requests, pub_trace>>

\* _get_upload_url: one request
PubGetUploadUrl(o) ==
    /\ pub_pc = "get_url"
    /\ pub_requests' = [pub_requests EXCEPT !.get_url = @ + 1]
    /\ pub_trace' = Append(pub_trace, "get_url")
    /\ pub_steps' = [pub_steps EXCEPT !.get_url = o]
    /\ IF step_raises(o) = "none"
       THEN /\ pub_pc' = "upload"
            /\ pub_up' = "running"
            /\ pub_attempt' = 1
            /\ UNCHANGED <<pub_on_disk, pub_exc, pub_result>>
       ELSE /\ Fail(step_raises(o))
            /\ UNCHANGED <<pub_up, pub_attempt>>
    /\ UNCHANGED <<rateVars, pub_wake, pub_file, pub_up_ret, pub_uploads,
                   pub_backoff>>

\* _upload_image: one iteration of the retry loop, with its time.sleep
PubUploadAttempt(o) ==
    /\ pub_pc = "upload"
    /\ pub_up = "running"
    /\ pub_attempt <= max_retries
    /\ pub_uploads' = Append(pub_uploads, o)
    /\ pub_requests' = [pub_requests EXCEPT
                           !.upload = IF o.kind = "openerr" THEN @ ELSE @ + 1]
    /\ pub_trace' = IF o.kind = "openerr" THEN pub_trace
                    ELSE Append(pub_trace, "upload")
    /\ LET todo == upload_step(pub_attempt, o.kind)
       IN  CASE todo = "return" ->
                  /\ pub_up' = "returned"
                  /\ pub_up_ret' = o.payload
                  /\ pub_pc' = "save"
                  /\ UNCHANGED <<pub_attempt, pub_backoff, pub_on_disk,
                                 pub_exc, pub_result>>
             [] todo = "retry" ->
                  /\ pub_backoff' = pub_backoff + wait_time(pub_attempt)
                  /\ pub_attempt' = pub_attempt + 1
                  /\ UNCHANGED <<pub_up, pub_up_ret, pub_pc, pub_on_disk,
                                 pub_exc, pub_result>>
             [] OTHER ->
                  /\ pub_up' = "raised"
                  /\ Fail(upload_raises(o.kind))
                  /\ UNCHANGED <<pub_attempt, pub_backoff, pub_up_ret>>
    /\ UNCHANGED <<rateVars, pub_wake, pub_file, pub_steps>>

\* _post_save_wall_photo: one request
PubSave(o) ==
    /\ pub_pc = "save"
    /\ pub_requests' = [pub_requests EXCEPT !.save = @ + 1]
    /\ pub_trace' = Append(pub_trace, "save")
    /\ pub_steps' = [pub_steps EXCEPT !.save = o]
    /\ IF step_raises(o) = "none"
       THEN /\ pub_pc' = "post"
            /\ UNCHANGED <<pub_on_disk, pub_exc, pub_result>>
       ELSE Fail(step_raises(o))
    /\ UNCHANGED <<rateVars, pub_wake, pub_file, pub_attempt, pub_up, pub_up_ret,
                   pub_uploads, pub_backoff>>

\* _wall_post: one request; the response is returned as it is unless it
\* carries an "error" key
PubWallPost(o) ==
    /\ pub_pc = "post"
    /\ pub_requests' = [pub_requests EXCEPT !.post = @ + 1]
    /\ pub_trace' = Append(pub_trace, "post")
    /\ pub_steps' = [pub_steps EXCEPT !.post = o]
    /\ IF step_raises(o) = "none"
       THEN /\ pub_pc' = "cleanup"
            /\ pub_result' = PostResult(o = "ok")
            /\ UNCHANGED <<pub_on_disk, pub_exc>>
       ELSE Fail(step_raises(o))
    /\ UNCHANGED <<rateVars, pub_wake, pub_file, pub_attempt, pub_up, pub_up_ret,
                   pub_uploads, pub_backoff>>

\* _cleanup_file, then return result: os.remove removes the file, finds
\* it already gone, or fails; none of the three changes the result
PubCleanup(o) ==
    /\ pub_pc = "cleanup"
    /\ pub_steps' = [pub_steps EXCEPT !.cleanup = o]
    /\ pub_trace' = Append(pub_trace, "cleanup")
    /\ IF cleanup_file(o) = "none"
       THEN /\ pub_on_disk' = IF o = "error" THEN pub_on_disk ELSE FALSE
            /\ pub_pc' = "returned"
            /\ UNCHANGED <<pub_exc, pub_result>>
       ELSE Fail(cleanup_file(o))
    /\ UNCHANGED <<rateVars, pub_wake, pub_file, pub_attempt, pub_up, pub_up_ret,
                   pub_uploads, pub_backoff, pub_requests>>

(***************************************************************************)
(* The photo handler: src/bot/handlers.py                                  *)
(*                                                                         *)
(* Several handle_photo coroutines run on one event loop.  An action is    *)
(* the code a coroutine runs between two suspension points; the calls of   *)
(* create_post_from_wall that block the thread (the requests and the       *)
(* time.sleep of the upload loop) are steps during which the coroutine     *)
(* keeps the loop, recorded in loop_owner.                                 *)
(***************************************************************************)
Handlers == 1..NumHandlers

FileIds == 1..NumFileIds

NoOwner == 0

HandlerMaxNow == (HandlerDays - 1) * DayLen

\* responses of the requests to the remote API
HandlerOutcomes == {"ok", "error"}

HandlerPostOutcomes == {"ok", "noresponse", "error"}

HandlerUploadKinds == {"ok", "empty"}

\* a handler whose message has not been delivered yet
NewTask ==
    [pc |-> "waiting", fid |-> 0, entry_flag |-> FALSE, prepared |-> "none",
     validated |-> "none", acquires |-> 0, wake |-> 0, attempt |-> 0,
     requested |-> FALSE,
     result |-> "none", cleanup |-> "none", recorded |-> "none",
     rec_day |-> NoDate, reported |-> "none", clobbered |-> FALSE,
     msgs |-> <<>>]

\* positions between the end of the download and the return of the publish
HoldingPcs ==
    {"prepare", "notify", "rate_sleep", "get_url", "upload", "backoff",
     "save", "post", "cleanup"}

\* task u has a file at temp_dir / f"{file_id}.jpg" and still needs it
Holding(u, f) == task[u].fid = f /\ task[u].pc \in HoldingPcs

\* an entry check that looks at the white list only
entry_check_no_flag(flag, allowed) ==
    IF ~allowed THEN "no_access" ELSE "accepted"

\* the two checks at the top of handle_photo
entry_check(flag, allowed) ==
    IF flag THEN "shutdown"
    ELSE IF ~allowed THEN "no_access"
    ELSE "accepted"

\* a handler that goes on to publish whatever the preparation returned
after_prepare_always_publish(ok) == "notify"

\* if not await prepare_file_for_upload(...): reply, increment_error, return
after_prepare(ok) == IF ok THEN "notify" ELSE "ack_not_ready"

\* an increment that leaves the total untouched
increment_error_daily_only(s, now) ==
    LET c == check_and_reset_daily(s, now)
    IN  [c EXCEPT !.daily_errors = @ + 1]

\* Statistics.increment_success
increment_success(s, now) ==
    LET c == check_and_reset_daily(s, now)
    IN  [c EXCEPT !.total_success = @ + 1, !.daily_success = @ + 1]

\* Statistics.increment_error
increment_error(s, now) ==
    LET c == check_and_reset_daily(s, now)
    IN  [c EXCEPT !.total_errors = @ + 1, !.daily_errors = @ + 1]

\* an upload loop that tells the chat about every retry
upload_messages_on_retry(todo) ==
    IF todo = "retry" THEN <<"retrying">> ELSE <<>>

\* the messages one iteration of the loop of _upload_image sends to the
\* chat: it logs and sleeps, it has no access to the message
upload_messages(todo) == <<>>

\* if result and "response" in result
is_success(result) == result = "ok"

InitHandler ==
    /\ is_shutting_down = FALSE
    /\ loop_owner = NoOwner
    /\ disk = [f \in FileIds |-> FALSE]
    /\ task = [t \in Handlers |-> NewTask]
    /\ reports = 0
    /\ now_msk = DayLen - 1
    /\ stats = check_and_reset_daily(NewStatistics, now_msk)
    /\ clock = 0
    /\ request_times = <<0, 0, 0>>
    /\ acq_log = <<>>

\* the files of the other tasks that a write or a removal of path f hits
Clobber(t, f, r) ==
    [u \in Handlers |->
        IF u = t THEN r
        ELSE IF Holding(u, f) THEN [task[u] EXCEPT !.clobbered = TRUE]
        ELSE task[u]]

\* the task records an error and waits for the reply of the except clause
Excepted(t, r) ==
    [r EXCEPT !.pc = "ack_exception", !.recorded = "error",
              !.rec_day = Midnight(now_msk)]

\* set_shutting_down(True)
SetShuttingDown ==
    /\ ~is_shutting_down
    /\ is_shutting_down' = TRUE
    /\ UNCHANGED <<loop_owner, disk, task, reports, now_msk, stats, clock,
                   request_times, acq_log>>

\* the wall clock of the statistics advances
HandlerDayTick ==
    /\ now_msk < HandlerMaxNow
    /\ now_msk' = now_msk + 1
    /\ UNCHANGED <<is_shutting_down, loop_owner, disk, task, reports, stats,
                   clock, request_times, acq_log>>

\* time passes until the sleep of a task in the limiter is over
HandlerClockTick ==
    /\ \E t \in Handlers :
          /\ task[t].pc = "rate_sleep"
          /\ clock < task[t].wake
          /\ clock' = task[t].wake
    /\ UNCHANGED <<is_shutting_down, loop_owner, disk, task, reports, now_msk,
                   stats, request_times, acq_log>>

\* send_stats: stats.get_dict() starts with the rollover check
HandlerSnapshot ==
    /\ loop_owner = NoOwner
    /\ stats' = check_and_reset_daily(stats, now_msk)
    /\ UNCHANGED <<is_shutting_down, loop_owner, disk, task, reports, now_msk,
                   clock, request_times, acq_log>>

\* a photo message is delivered: the shutdown check, the white-list check
\* and the code up to await bot.get_file
Arrive(t, f, allowed) ==
    /\ loop_owner = NoOwner
    /\ task[t].pc = "waiting"
    /\ LET verdict == entry_check(is_shutting_down, allowed)
       IN  task' = [task EXCEPT ![t] =
                IF verdict = "accepted"
                THEN [@ EXCEPT !.pc = "download", !.fid = f,
                               !.entry_flag = is_shutting_down]
                ELSE [@ EXCEPT !.pc = "rejected", !.reported = verdict,
                               !.entry_flag = is_shutting_down,
                               !.msgs = Append(@, verdict)]]
    /\ UNCHANGED <<is_shutting_down, loop_owner, disk, reports, now_msk, stats,
                   clock, request_times, acq_log>>

\* bot.get_file and file.download to temp_dir / f"{file_id}.jpg"
Download(t, ok) ==
    /\ loop_owner = NoOwner
    /\ task[t].pc = "download"
    /\ IF ok
       THEN /\ disk' = [disk EXCEPT ![task[t].fid] = TRUE]
            /\ task' = Clobber(t, task[t].fid, [task[t] EXCEPT !.pc = "prepare"])
            /\ UNCHANGED stats
       ELSE /\ stats' = increment_error(stats, now_msk)
            /\ task' = [task EXCEPT ![t] = Excepted(t, @)]
            /\ UNCHANGED disk
    /\ UNCHANGED <<is_shutting_down, loop_owner, reports, now_msk, clock,
                   request_times, acq_log>>

\* prepare_file_for_upload: readiness, validation, hash; a file that is
\* not on disk is never ready
Prepare(t, ok) ==
    /\ loop_owner = NoOwner
    /\ task[t].pc = "prepare"
    /\ ok => disk[task[t].fid]
    /\ task' = [task EXCEPT ![t] =
                    [@ EXCEPT !.pc = after_prepare(ok),
                              !.prepared = IF ok THEN "ok" ELSE "failed"]]
    /\ UNCHANGED <<is_shutting_down, loop_owner, disk, reports, now_msk, stats,
                   clock, request_times, acq_log>>

\* await message.reply(BOT_FILE_NOT_READY_MESSAGE); stats.increment_error()
AckNotReady(t, ok) ==
    /\ loop_owner = NoOwner
    /\ task[t].pc = "ack_not_ready"
    /\ stats' = increment_error(stats, now_msk)
    /\ task' = [task EXCEPT ![t] =
                    IF ok
                    THEN [@ EXCEPT !.pc = "done", !.recorded = "error",
                                   !.rec_day = Midnight(now_msk),
                                   !.reported = "not_ready",
                                   !.msgs = Append(@, "not_ready")]
                    ELSE Excepted(t, @)]
    /\ UNCHANGED <<is_shutting_down, loop_owner, disk, reports, now_msk, clock,
                   request_times, acq_log>>

\* validate_image_file inside create_post_from_wall and what follows it
\* without suspension: the failure value, or the first blocking request
Validated(t, r, valid) ==
    IF valid
    THEN [r EXCEPT !.pc = "get_url", !.validated = "ok"]
    ELSE [r EXCEPT !.pc = "ack_failure", !.validated = "invalid",
                   !.result = "None"]

\* await message.reply(BOT_UPLOADING_MESSAGE) returns; the handler enters
\* create_post_from_wall and runs _rate_limit up to its sleep or, with no
\* sleep, on through the re-validation
Notify(t, ok, valid) ==
    /\ loop_owner = NoOwner
    /\ task[t].pc = "notify"
    /\ valid => disk[task[t].fid]
    /\ IF ~ok
       THEN /\ stats' = increment_error(stats, now_msk)
            /\ task' = [task EXCEPT ![t] = Excepted(t, @)]
            /\ UNCHANGED <<loop_owner, request_times, acq_log>>
       ELSE IF MustSleep(request_times, clock)
       THEN /\ task' = [task EXCEPT ![t] =
                           [@ EXCEPT !.pc = "rate_sleep", !.acquires = @ + 1,
                                     !.wake = clock + Delay(request_times, clock),
                                     !.msgs = Append(@, "uploading")]]
            /\ UNCHANGED <<loop_owner, request_times, acq_log, stats>>
       ELSE /\ request_times' = DequeAppend(request_times, clock)
            /\ acq_log' = acq_log
            /\ task' = [task EXCEPT ![t] =
                           Validated(t, [@ EXCEPT !.acquires = @ + 1,
                                                  !.msgs = Append(@, "uploading")],
                                     valid)]
            /\ loop_owner' = IF valid THEN t ELSE NoOwner
            /\ UNCHANGED stats
    /\ UNCHANGED <<is_shutting_down, disk, reports, now_msk, clock>>

\* asyncio.sleep(1.1 - elapsed) returns: the timestamp is appended and
\* the publish goes on through the re-validation
RateWake(t, valid) ==
    /\ loop_owner = NoOwner
    /\ task[t].pc = "rate_sleep"
    /\ clock >= task[t].wake
    /\ valid => disk[task[t].fid]
    /\ request_times' = DequeAppend(request_times, clock)
    /\ acq_log' = acq_log
    /\ task' = [task EXCEPT ![t] = Validated(t, @, valid)]
    /\ loop_owner' = IF valid THEN t ELSE NoOwner
    /\ UNCHANGED <<is_shutting_down, disk, reports, now_msk, stats, clock>>

\* a blocking step of the publish raised: create_post_from_wall returns
\* None and the handler awaits status_msg.edit_text(BOT_ERROR_MESSAGE)
StepFailed(t, r) ==
    /\ task' = [task EXCEPT ![t] =
                    [r EXCEPT !.pc = "ack_failure", !.result = "None"]]
    /\ loop_owner' = NoOwner

\* _get_upload_url, called without await
GetUploadUrl(t, o) ==
    /\ loop_owner = t
    /\ task[t].pc = "get_url"
    /\ LET r == [task[t] EXCEPT !.requested = TRUE]
       IN  IF step_raises(o) = "none"
           THEN /\ task' = [task EXCEPT ![t] =
                               [r EXCEPT !.pc = "upload", !.attempt = 1]]
                /\ UNCHANGED loop_owner
           ELSE StepFailed(t, r)
    /\ UNCHANGED <<is_shutting_down, disk, reports, now_msk, stats, clock,
                   request_times, acq_log>>

\* one iteration of the loop of _upload_image, up to its time.sleep
UploadAttempt(t, kind) ==
    /\ loop_owner = t
    /\ task[t].pc = "upload"
    /\ task[t].attempt <= max_retries
    /\ LET todo == upload_step(task[t].attempt, kind)
           r == [task[t] EXCEPT !.requested = TRUE,
                                !.msgs = @ \o upload_messages(todo)]
       IN  CASE todo = "return" ->
                  /\ task' = [task EXCEPT ![t] =
                                 [r EXCEPT !.pc = "save", !.attempt = 0]]
                  /\ UNCHANGED loop_owner
             [] todo = "retry" ->
                  /\ task' = [task EXCEPT ![t] = [r EXCEPT !.pc = "backoff"]]
                  /\ UNCHANGED loop_owner
             [] OTHER -> StepFailed(t, [r EXCEPT !.attempt = 0])
    /\ UNCHANGED <<is_shutting_down, disk, reports, now_msk, stats, clock,
                   request_times, acq_log>>

\* time.sleep(2 ** (attempt - 1)) returns and the loop continues
BackoffEnd(t) ==
    /\ loop_owner = t
    /\ task[t].pc = "backoff"
    /\ task' = [task EXCEPT ![t] = [@ EXCEPT !.pc = "upload", !.attempt = @ + 1]]
    /\ UNCHANGED <<is_shutting_down, loop_owner, disk, reports, now_msk, stats,
                   clock, request_times, acq_log>>

\* _post_save_wall_photo, called without await
SavePhoto(t, o) ==
    /\ loop_owner = t
    /\ task[t].pc = "save"
    /\ LET r == [task[t] EXCEPT !.requested = TRUE]
       IN  IF step_raises(o) = "none"
           THEN /\ task' = [task EXCEPT ![t] = [r EXCEPT !.pc = "post"]]
                /\ UNCHANGED loop_owner
           ELSE StepFailed(t, r)
    /\ UNCHANGED <<is_shutting_down, disk, reports, now_msk, stats, clock,
                   request_times, acq_log>>

\* _wall_post, called without await, up to await self._cleanup_file
WallPost(t, o) ==
    /\ loop_owner = t
    /\ task[t].pc = "post"
    /\ LET r == [task[t] EXCEPT !.requested = TRUE]
       IN  IF step_raises(o) = "none"
           THEN /\ task' = [task EXCEPT ![t] =
                               [r EXCEPT !.pc = "cleanup", !.result = o]]
                /\ loop_owner' = NoOwner
           ELSE StepFailed(t, r)
    /\ UNCHANGED <<is_shutting_down, disk, reports, now_msk, stats, clock,
                   request_times, acq_log>>

\* _cleanup_file in a worker thread, return result, and the handler's
\* test of the result up to await status_msg.edit_text
Cleanup(t, o) ==
    /\ loop_owner = NoOwner
    /\ task[t].pc = "cleanup"
    /\ (o = "removed") => disk[task[t].fid]
    /\ (o = "missing") => ~disk[task[t].fid]
    /\ LET r == [task[t] EXCEPT
                    !.cleanup = o,
                    !.pc = IF is_success(task[t].result) THEN "ack_success"
                           ELSE "ack_failure"]
       IN  IF o = "removed"
           THEN /\ disk' = [disk EXCEPT ![task[t].fid] = FALSE]
                /\ task' = Clobber(t, task[t].fid, r)
           ELSE /\ task' = [task EXCEPT ![t] = r]
                /\ UNCHANGED disk
    /\ UNCHANGED <<is_shutting_down, loop_owner, reports, now_msk, stats, clock,
                   request_times, acq_log>>

\* await status_msg.edit_text(success_message); stats.increment_success();
\* if stats.should_log_stats(): logger.info(stats.get_log_stats())
AckSuccess(t, ok) ==
    /\ loop_owner = NoOwner
    /\ task[t].pc = "ack_success"
    /\ IF ok
       THEN /\ stats' = increment_success(stats, now_msk)
            /\ reports' = IF should_log_stats(stats') THEN reports + 1 ELSE reports
            /\ task' = [task EXCEPT ![t] =
                           [@ EXCEPT !.pc = "done", !.recorded = "success",
                                     !.rec_day = Midnight(now_msk),
                                     !.reported = "success",
                                     !.msgs = Append(@, "success")]]
       ELSE /\ stats' = increment_error(stats, now_msk)
            /\ task' = [task EXCEPT ![t] = Excepted(t, @)]
            /\ UNCHANGED reports
    /\ UNCHANGED <<is_shutting_down, loop_owner, disk, now_msk, clock,
                   request_times, acq_log>>

\* await status_msg.edit_text(BOT_ERROR_MESSAGE); stats.increment_error()
AckFailure(t, ok) ==
    /\ loop_owner = NoOwner
    /\ task[t].pc = "ack_failure"
    /\ stats' = increment_error(stats, now_msk)
    /\ task' = [task EXCEPT ![t] =
                    IF ok
                    THEN [@ EXCEPT !.pc = "done", !.recorded = "error",
                                   !.rec_day = Midnight(now_msk),
                                   !.reported = "failure",
                                   !.msgs = Append(@, "failure")]
                    ELSE Excepted(t, @)]
    /\ UNCHANGED <<is_shutting_down, loop_owner, disk, reports, now_msk, clock,
                   request_times, acq_log>>

\* the reply of the except clause, whose own failure is swallowed
AckException(t, ok) ==
    /\ loop_owner = NoOwner
    /\ task[t].pc = "ack_exception"
    /\ task' = [task EXCEPT ![t] =
                    [@ EXCEPT !.pc = "done",
                              !.reported = IF ok THEN "failure" ELSE "none",
                              !.msgs = IF ok THEN Append(@, "exception")
                                       ELSE @]]
    /\ UNCHANGED <<is_shutting_down, loop_owner, disk, reports, now_msk, stats,
                   clock, request_times, acq_log>>

(***************************************************************************)
(* The end of a task as the statistics see it: handlers.py, the branches   *)
(* of handle_photo that record an outcome                                  *)
(***************************************************************************)
InitReport ==
    /\ now_msk \in 0..(DayLen - 1)
    /\ stats = check_and_reset_daily(NewStatistics, now_msk)
    /\ reports = 0

\* the wall clock advances between two tasks
ReportTick ==
    /\ now_msk < MaxNow
    /\ now_msk' = now_msk + 1
    /\ UNCHANGED <<stats, reports>>

\* the success branch: stats.increment_success(), then
\* if stats.should_log_stats(): logger.info(stats.get_log_stats())
CompleteSuccess ==
    /\ stats.total_success + stats.total_errors < MaxRecords
    /\ stats' = increment_success(stats, now_msk)
    /\ reports' = IF should_log_stats(stats') THEN reports + 1 ELSE reports
    /\ UNCHANGED now_msk

\* the failure branches: stats.increment_error() and nothing else
CompleteFailure ==
    /\ stats.total_success + stats.total_errors < MaxRecords
    /\ stats' = increment_error(stats, now_msk)
    /\ UNCHANGED <<now_msk, reports>>

(***************************************************************************)
(* prepare_file_for_upload: src/utils/file_validator.py                    *)
(***************************************************************************)
\* what calculate_file_hash can meet: the digest, or an exception of
\* open / read in the worker thread
HashOutcomes == {"digest", "error"}

\* calculate_file_hash: the hex digest, or None when anything raised
calculate_file_hash(o) == IF o = "digest" THEN "digest" ELSE "None"

\* a preparation that rejects a file it could not hash
after_hash_requires_digest(file_hash) == file_hash # "None"

\* step 3 of prepare_file_for_upload: a missing hash is logged as a
\* warning and True is returned all the same
after_hash(file_hash) == TRUE

\* the call has entered wait_for_file_ready
InitPrepare ==
    /\ prep_pc = "ready"
    /\ prep_ret = FALSE
    /\ prep_hash = "none"
    /\ prep_calls = <<"wait_for_file_ready">>

\* one iteration of the loop of wait_for_file_ready
PrepWaitAttempt(f) ==
    /\ prep_pc = "ready"
    /\ WaitAttempt(f)
    /\ UNCHANGED <<prepVars, validVars>>

\* the loop of wait_for_file_ready is exhausted
PrepWaitExhausted ==
    /\ prep_pc = "ready"
    /\ WaitExhausted
    /\ UNCHANGED <<prepVars, validVars>>

\* if not await validator.wait_for_file_ready(file_path): return False
PrepAfterReady ==
    /\ prep_pc = "ready"
    /\ wf_pc = "done"
    /\ IF wf_ret
       THEN /\ prep_pc' = "validate"
            /\ prep_calls' = Append(prep_calls, "validate_image_file")
            /\ UNCHANGED prep_ret
       ELSE /\ prep_pc' = "returned"
            /\ prep_ret' = FALSE
            /\ UNCHANGED prep_calls
    /\ UNCHANGED <<prep_hash, readyVars, validVars>>

\* if not await validator.validate_image_file(file_path): return False
PrepValidate ==
    /\ prep_pc = "validate"
    /\ ValidateImageFile
    /\ IF validate_image_file(vf_file).ret
       THEN /\ prep_pc' = "hash"
            /\ prep_calls' = Append(prep_calls, "calculate_file_hash")
            /\ UNCHANGED prep_ret
       ELSE /\ prep_pc' = "returned"
            /\ prep_ret' = FALSE
            /\ UNCHANGED prep_calls
    /\ UNCHANGED <<prep_hash, readyVars>>

\* file_hash = await validator.calculate_file_hash(file_path); return True
PrepHash(o) ==
    /\ prep_pc = "hash"
    /\ prep_hash' = calculate_file_hash(o)
    /\ prep_ret' = after_hash(calculate_file_hash(o))
    /\ prep_pc' = "returned"
    /\ UNCHANGED <<prep_calls, readyVars, validVars>>

(***************************************************************************)
(* cleanup_old_temp_files and its callers: src/main.py                     *)
(*                                                                         *)
(* Time is counted in ticks, TicksPerHour to the hour.  The loop over the  *)
(* files runs without an await, so no handler writes a file during a       *)
(* sweep; the wall clock moves on and the os.remove of a publish, which    *)
(* runs in a worker thread, can take a file away at any moment.            *)
(***************************************************************************)
SweepPaths == 1..NumSweepFiles

NoFile == [present |-> FALSE, mtime |-> 0]

\* max_age_hours * 3600, in ticks
MaxAge(max_age_hours) == max_age_hours * TicksPerHour

\* a sweeper that takes the files that have reached the limit
too_old_inclusive(now, mtime, max_age_hours) ==
    now - mtime >= MaxAge(max_age_hours)

\* age = now - file.stat().st_mtime; if age > max_age_hours * 3600
too_old(now, mtime, max_age_hours) ==
    now - mtime > MaxAge(max_age_hours)

\* what a visit of the loop can meet: stat and unlink work, or one raises
SweepOutcomes == {"ok", "stat_error", "unlink_error"}

InitSweep ==
    /\ sw_now = 0
    /\ sw_files = [p \in SweepPaths |-> NoFile]
    /\ sw_pc = "idle"
    /\ sw_todo = {}
    /\ sw_at = 0
    /\ sw_err = {}
    /\ sw_log = <<>>

\* the wall clock advances
SweepTick ==
    /\ sw_now < MaxSweepNow
    /\ sw_now' = sw_now + 1
    /\ UNCHANGED <<sw_files, sw_pc, sw_todo, sw_at, sw_err, sw_log>>

\* a handler downloads a photo to the path; when its task fails the file
\* stays where it is
LeaveFile(p) ==
    /\ sw_pc = "idle"
    /\ sw_files' = [sw_files EXCEPT ![p] = [present |-> TRUE, mtime |-> sw_now]]
    /\ UNCHANGED <<sw_now, sw_pc, sw_todo, sw_at, sw_err, sw_log>>

\* the os.remove of a successful publish
PublishRemoves(p) ==
    /\ sw_files[p].present
    /\ sw_files' = [sw_files EXCEPT ![p] = NoFile]
    /\ UNCHANGED <<sw_now, sw_pc, sw_todo, sw_at, sw_err, sw_log>>

\* cleanup_old_temp_files starts: now is read once, glob lists the files
SweepStart ==
    /\ sw_pc = "idle"
    /\ sw_pc' = "sweep"
    /\ sw_at' = sw_now
    /\ sw_todo' = {p \in SweepPaths : sw_files[p].present}
    /\ sw_err' = {}
    /\ UNCHANGED <<sw_now, sw_files, sw_log>>

\* one iteration of the loop: stat, the comparison of the age, unlink; an
\* exception of either is logged and the loop goes on
SweepVisit(p, o) ==
    /\ sw_pc = "sweep"
    /\ p \in sw_todo
    /\ sw_todo' = sw_todo \ {p}
    /\ IF ~sw_files[p].present \/ o = "stat_error"
       THEN /\ sw_err' = sw_err \cup {p}
            /\ UNCHANGED <<sw_files, sw_log>>
       ELSE IF ~too_old(sw_at, sw_files[p].mtime, cleanup_age_hours)
       THEN UNCHANGED <<sw_files, sw_err, sw_log>>
       ELSE IF o = "unlink_error"
       THEN /\ sw_err' = sw_err \cup {p}
            /\ UNCHANGED <<sw_files, sw_log>>
       ELSE /\ sw_files' = [sw_files EXCEPT ![p] = NoFile]
            /\ sw_log' = Append(sw_log,
                                [path |-> p,
                                 age |-> sw_now - sw_files[p].mtime,
                                 seen |-> sw_at - sw_files[p].mtime])
            /\ UNCHANGED sw_err
    /\ UNCHANGED <<sw_now, sw_pc, sw_at>>

\* the loop is over
SweepEnd ==
    /\ sw_pc = "sweep"
    /\ sw_todo = {}
    /\ sw_pc' = "idle"
    /\ UNCHANGED <<sw_now, sw_files, sw_todo, sw_at, sw_err, sw_log>>

(***************************************************************************)
(* Specifications                                                          *)
(***************************************************************************)
\* a component that takes no part in a specification rests in one state
IdleRate ==
    /\ clock = 0
    /\ request_times = <<>>
    /\ rl_pc = [t \in Tasks |-> "idle"]
    /\ rl_wake = [t \in Tasks |-> 0]
    /\ acq_log = <<>>

IdleStats ==
    /\ now_msk = 0
    /\ stats = check_and_reset_daily(NewStatistics, 0)
    /\ hist = NoHistory
    /\ st_op = "init"
    /\ st_ret = FALSE

IdleReady ==
    /\ wf_max_attempts = 0
    /\ wf_attempt = 0
    /\ wf_prev_size = 0
    /\ wf_pc = "loop"
    /\ wf_ret = FALSE
    /\ wf_obs = <<>>

IdleValid ==
    /\ vf_file = [exists |-> FALSE, suffix |-> <<>>, size |-> 0, stat_fails |-> FALSE]
    /\ vf_pc = "call"
    /\ vf_ret = FALSE
    /\ vf_checks = <<>>

IdlePublish ==
    /\ pub_pc = "start"
    /\ pub_wake = 0
    /\ pub_file = [exists |-> FALSE, suffix |-> <<>>, size |-> 0, stat_fails |-> FALSE]
    /\ pub_on_disk = FALSE
    /\ pub_attempt = 0
    /\ pub_up = "idle"
    /\ pub_up_ret = NoPayload
    /\ pub_uploads = <<>>
    /\ pub_backoff = 0
    /\ pub_steps = NoSteps
    /\ pub_requests = NoRequests
    /\ pub_exc = "none"
    /\ pub_result = NoResult
    /\ pub_trace = <<>>

IdleTasks ==
    /\ is_shutting_down = FALSE
    /\ loop_owner = NoOwner
    /\ disk = [f \in FileIds |-> FALSE]
    /\ task = [t \in Handlers |-> NewTask]

IdleHandler == IdleTasks /\ reports = 0

\* the settings as they are without an environment
IdleConfig == rate_limit_per_second = DefaultRateLimit

\* no read of the statistics has returned
IdleReads == st_val = NoValue

\* prepare_file_for_upload has not been called
IdlePrepare ==
    /\ prep_pc = "ready"
    /\ prep_ret = FALSE
    /\ prep_hash = "none"
    /\ prep_calls = <<>>

\* no sweep runs and temp_dir is empty
IdleSweep ==
    /\ sw_now = 0
    /\ sw_files = [p \in SweepPaths |-> NoFile]
    /\ sw_pc = "idle"
    /\ sw_todo = {}
    /\ sw_at = 0
    /\ sw_err = {}
    /\ sw_log = <<>>

\* concurrent tasks in the rate limiter
NextRate ==
    \/ \E t \in Tasks : RateLimitCall(t) /\ UNCHANGED <<statVars, readyVars, validVars, pubVars, handVars, confVars, readVars, prepVars, sweepVars>>
    \/ \E t \in Tasks : RateLimitWake(t) /\ UNCHANGED <<statVars, readyVars, validVars, pubVars, handVars, confVars, readVars, prepVars, sweepVars>>
    \/ TickClock /\ UNCHANGED <<statVars, readyVars, validVars, pubVars, handVars, confVars, readVars, prepVars, sweepVars>>

InitSpecRate == InitRate /\ IdleStats /\ IdleReady /\ IdleValid /\ IdlePublish /\ IdleHandler /\ IdleConfig /\ IdleReads /\ IdlePrepare /\ IdleSweep

SpecRate == InitSpecRate /\ [][NextRate]_vars

\* the rate limiter of a bot started with any valid RATE_LIMIT_PER_SECOND
InitSpecRateConf ==
    /\ InitRate /\ InitConfig /\ IdleReads /\ IdlePrepare /\ IdleSweep
    /\ IdleStats /\ IdleReady /\ IdleValid /\ IdlePublish /\ IdleHandler

SpecRateConf == InitSpecRateConf /\ [][NextRate]_vars

\* one caller that calls the rate limiter again and again
NextRateSeq ==
    \/ RateLimitCall(1) /\ UNCHANGED <<statVars, readyVars, validVars, pubVars, handVars, confVars, readVars, prepVars, sweepVars>>
    \/ RateLimitWake(1) /\ UNCHANGED <<statVars, readyVars, validVars, pubVars, handVars, confVars, readVars, prepVars, sweepVars>>
    \/ TickClock /\ UNCHANGED <<statVars, readyVars, validVars, pubVars, handVars, confVars, readVars, prepVars, sweepVars>>

SpecRateSeq == InitSpecRate /\ [][NextRateSeq]_vars

\* record calls interleaved with clock advances
NextRecord ==
    \/ StatsTick /\ UNCHANGED <<rateVars, readyVars, validVars, pubVars, handVars, confVars, readVars, prepVars, sweepVars>>
    \/ IncrementSuccess /\ UNCHANGED <<rateVars, readyVars, validVars, pubVars, handVars, confVars, readVars, prepVars, sweepVars>>
    \/ IncrementError /\ UNCHANGED <<rateVars, readyVars, validVars, pubVars, handVars, confVars, readVars, prepVars, sweepVars>>

InitSpecStats == InitStats /\ IdleRate /\ IdleReady /\ IdleValid /\ IdlePublish /\ IdleHandler /\ IdleConfig /\ IdleReads /\ IdlePrepare /\ IdleSweep

SpecRecord == InitSpecStats /\ [][NextRecord]_vars

\* every operation of the statistics object
NextStats ==
    \/ StatsTick /\ UNCHANGED <<rateVars, readyVars, validVars, pubVars, handVars, confVars, readVars, prepVars, sweepVars>>
    \/ IncrementSuccess /\ UNCHANGED <<rateVars, readyVars, validVars, pubVars, handVars, confVars, readVars, prepVars, sweepVars>>
    \/ IncrementError /\ UNCHANGED <<rateVars, readyVars, validVars, pubVars, handVars, confVars, readVars, prepVars, sweepVars>>
    \/ ShouldLogStats /\ UNCHANGED <<rateVars, readyVars, validVars, pubVars, handVars, confVars, readVars, prepVars, sweepVars>>
    \/ GetDict /\ UNCHANGED <<rateVars, readyVars, validVars, pubVars, handVars, confVars, readVars, prepVars, sweepVars>>
    \/ ResetDailyStats /\ UNCHANGED <<rateVars, readyVars, validVars, pubVars, handVars, confVars, readVars, prepVars, sweepVars>>

SpecStats == InitSpecStats /\ [][NextStats]_vars

\* the operations of the statistics object with the reads that return a
\* number; an operation that returns none leaves none behind
NextReads ==
    \/ StatsTick /\ st_val' = NoValue /\ UNCHANGED <<rateVars, readyVars, validVars, pubVars, handVars, confVars, prepVars, sweepVars>>
    \/ IncrementSuccess /\ st_val' = NoValue /\ UNCHANGED <<rateVars, readyVars, validVars, pubVars, handVars, confVars, prepVars, sweepVars>>
    \/ IncrementError /\ st_val' = NoValue /\ UNCHANGED <<rateVars, readyVars, validVars, pubVars, handVars, confVars, prepVars, sweepVars>>
    \/ ShouldLogStats /\ st_val' = NoValue /\ UNCHANGED <<rateVars, readyVars, validVars, pubVars, handVars, confVars, prepVars, sweepVars>>
    \/ GetDict /\ st_val' = NoValue /\ UNCHANGED <<rateVars, readyVars, validVars, pubVars, handVars, confVars, prepVars, sweepVars>>
    \/ ResetDailyStats /\ st_val' = NoValue /\ UNCHANGED <<rateVars, readyVars, validVars, pubVars, handVars, confVars, prepVars, sweepVars>>
    \/ \E use_daily \in BOOLEAN :
          GetSuccessRate(use_daily) /\ UNCHANGED <<rateVars, readyVars, validVars, pubVars, handVars, confVars, prepVars, sweepVars>>
    \/ \E use_daily \in BOOLEAN :
          GetTotalPosts(use_daily) /\ UNCHANGED <<rateVars, readyVars, validVars, pubVars, handVars, confVars, prepVars, sweepVars>>

SpecReads == InitSpecStats /\ [][NextReads]_vars

\* one call of prepare_file_for_upload
NextPrepare ==
    \/ \E f \in Findings : PrepWaitAttempt(f) /\ UNCHANGED <<rateVars, statVars, pubVars, handVars, confVars, readVars, sweepVars>>
    \/ PrepWaitExhausted /\ UNCHANGED <<rateVars, statVars, pubVars, handVars, confVars, readVars, sweepVars>>
    \/ PrepAfterReady /\ UNCHANGED <<rateVars, statVars, pubVars, handVars, confVars, readVars, sweepVars>>
    \/ PrepValidate /\ UNCHANGED <<rateVars, statVars, pubVars, handVars, confVars, readVars, sweepVars>>
    \/ \E o \in HashOutcomes : PrepHash(o) /\ UNCHANGED <<rateVars, statVars, pubVars, handVars, confVars, readVars, sweepVars>>

InitSpecPrepare ==
    /\ InitPrepare /\ InitReady /\ InitValid
    /\ IdleRate /\ IdleStats /\ IdlePublish /\ IdleHandler /\ IdleConfig /\ IdleReads /\ IdleSweep

SpecPrepare == InitSpecPrepare /\ [][NextPrepare]_vars

\* the sweeper, the clock and the handlers that leave and remove files
NextSweep ==
    \/ SweepTick /\ UNCHANGED <<rateVars, statVars, readyVars, validVars, pubVars, handVars, confVars, readVars, prepVars>>
    \/ \E p \in SweepPaths : LeaveFile(p) /\ UNCHANGED <<rateVars, statVars, readyVars, validVars, pubVars, handVars, confVars, readVars, prepVars>>
    \/ \E p \in SweepPaths : PublishRemoves(p) /\ UNCHANGED <<rateVars, statVars, readyVars, validVars, pubVars, handVars, confVars, readVars, prepVars>>
    \/ SweepStart /\ UNCHANGED <<rateVars, statVars, readyVars, validVars, pubVars, handVars, confVars, readVars, prepVars>>
    \/ \E p \in SweepPaths, o \in SweepOutcomes : SweepVisit(p, o) /\ UNCHANGED <<rateVars, statVars, readyVars, validVars, pubVars, handVars, confVars, readVars, prepVars>>
    \/ SweepEnd /\ UNCHANGED <<rateVars, statVars, readyVars, validVars, pubVars, handVars, confVars, readVars, prepVars>>

InitSpecSweep ==
    /\ InitSweep
    /\ IdleRate /\ IdleStats /\ IdleReady /\ IdleValid /\ IdlePublish /\ IdleHandler /\ IdleConfig /\ IdleReads /\ IdlePrepare

SpecSweep == InitSpecSweep /\ [][NextSweep]_vars

\* one call of wait_for_file_ready against a changing file
NextReady ==
    \/ \E f \in Findings : WaitAttempt(f) /\ UNCHANGED <<rateVars, statVars, validVars, pubVars, handVars, confVars, readVars, prepVars, sweepVars>>
    \/ WaitExhausted /\ UNCHANGED <<rateVars, statVars, validVars, pubVars, handVars, confVars, readVars, prepVars, sweepVars>>

InitSpecReady == InitReady /\ IdleRate /\ IdleStats /\ IdleValid /\ IdlePublish /\ IdleHandler /\ IdleConfig /\ IdleReads /\ IdlePrepare /\ IdleSweep

SpecReady == InitSpecReady /\ [][NextReady]_vars

\* one call of validate_image_file on any file
NextValid ==
    ValidateImageFile /\ UNCHANGED <<rateVars, statVars, readyVars, pubVars, handVars, confVars, readVars, prepVars, sweepVars>>

InitSpecValid == InitValid /\ IdleRate /\ IdleStats /\ IdleReady /\ IdlePublish /\ IdleHandler /\ IdleConfig /\ IdleReads /\ IdlePrepare /\ IdleSweep

SpecValid == InitSpecValid /\ [][NextValid]_vars

\* one publish, from the call to the return
NextPublish ==
    \/ PubRateLimit /\ UNCHANGED <<statVars, readyVars, validVars, handVars, confVars, readVars, prepVars, sweepVars>>
    \/ PubClockTick /\ UNCHANGED <<statVars, readyVars, validVars, handVars, confVars, readVars, prepVars, sweepVars>>
    \/ PubRateWake /\ UNCHANGED <<statVars, readyVars, validVars, handVars, confVars, readVars, prepVars, sweepVars>>
    \/ \E raises \in BOOLEAN :
          PubValidate(raises) /\ UNCHANGED <<statVars, readyVars, validVars, handVars, confVars, readVars, prepVars, sweepVars>>
    \/ \E o \in GetUrlOutcomes :
          PubGetUploadUrl(o) /\ UNCHANGED <<statVars, readyVars, validVars, handVars, confVars, readVars, prepVars, sweepVars>>
    \/ \E o \in UploadOutcomes :
          PubUploadAttempt(o) /\ UNCHANGED <<statVars, readyVars, validVars, handVars, confVars, readVars, prepVars, sweepVars>>
    \/ \E o \in SaveOutcomes :
          PubSave(o) /\ UNCHANGED <<statVars, readyVars, validVars, handVars, confVars, readVars, prepVars, sweepVars>>
    \/ \E o \in PostOutcomes :
          PubWallPost(o) /\ UNCHANGED <<statVars, readyVars, validVars, handVars, confVars, readVars, prepVars, sweepVars>>
    \/ \E o \in CleanupOutcomes :
          PubCleanup(o) /\ UNCHANGED <<statVars, readyVars, validVars, handVars, confVars, readVars, prepVars, sweepVars>>

InitSpecPublish == InitPublish /\ IdleStats /\ IdleReady /\ IdleValid /\ IdleHandler /\ IdleConfig /\ IdleReads /\ IdlePrepare /\ IdleSweep

SpecPublish == InitSpecPublish /\ [][NextPublish]_vars

\* a call of create_post_from_wall or a call of wait_for_file_ready, each
\* taking its next step whenever it has one: the coroutine is resumed when
\* its sleep or its request is over
InitSpecTerm ==
    \/ InitSpecPublish
    \/ InitSpecReady

NextTerm == NextPublish \/ NextReady

SpecTerm == InitSpecTerm /\ [][NextTerm]_vars /\ WF_vars(NextTerm)

\* what the handlers leave alone
HandlerRest ==
    <<rl_pc, rl_wake, hist, st_op, st_ret, readyVars, validVars, pubVars, confVars, readVars, prepVars, sweepVars>>

\* concurrent photo handlers on one event loop
NextHandler ==
    \/ SetShuttingDown /\ UNCHANGED HandlerRest
    \/ HandlerDayTick /\ UNCHANGED HandlerRest
    \/ HandlerClockTick /\ UNCHANGED HandlerRest
    \/ HandlerSnapshot /\ UNCHANGED HandlerRest
    \/ \E t \in Handlers, f \in FileIds, allowed \in BOOLEAN :
          Arrive(t, f, allowed) /\ UNCHANGED HandlerRest
    \/ \E t \in Handlers, ok \in BOOLEAN :
          Download(t, ok) /\ UNCHANGED HandlerRest
    \/ \E t \in Handlers, ok \in BOOLEAN :
          Prepare(t, ok) /\ UNCHANGED HandlerRest
    \/ \E t \in Handlers, ok \in BOOLEAN :
          AckNotReady(t, ok) /\ UNCHANGED HandlerRest
    \/ \E t \in Handlers, ok \in BOOLEAN, valid \in BOOLEAN :
          Notify(t, ok, valid) /\ UNCHANGED HandlerRest
    \/ \E t \in Handlers, valid \in BOOLEAN :
          RateWake(t, valid) /\ UNCHANGED HandlerRest
    \/ \E t \in Handlers, o \in HandlerOutcomes :
          GetUploadUrl(t, o) /\ UNCHANGED HandlerRest
    \/ \E t \in Handlers, kind \in HandlerUploadKinds :
          UploadAttempt(t, kind) /\ UNCHANGED HandlerRest
    \/ \E t \in Handlers : BackoffEnd(t) /\ UNCHANGED HandlerRest
    \/ \E t \in Handlers, o \in HandlerOutcomes :
          SavePhoto(t, o) /\ UNCHANGED HandlerRest
    \/ \E t \in Handlers, o \in HandlerPostOutcomes :
          WallPost(t, o) /\ UNCHANGED HandlerRest
    \/ \E t \in Handlers, o \in CleanupOutcomes :
          Cleanup(t, o) /\ UNCHANGED HandlerRest
    \/ \E t \in Handlers, ok \in BOOLEAN :
          AckSuccess(t, ok) /\ UNCHANGED HandlerRest
    \/ \E t \in Handlers, ok \in BOOLEAN :
          AckFailure(t, ok) /\ UNCHANGED HandlerRest
    \/ \E t \in Handlers, ok \in BOOLEAN :
          AckException(t, ok) /\ UNCHANGED HandlerRest

InitSpecHandler ==
    /\ InitHandler
    /\ rl_pc = [t \in Tasks |-> "idle"]
    /\ rl_wake = [t \in Tasks |-> 0]
    /\ hist = NoHistory
    /\ st_op = "init"
    /\ st_ret = FALSE
    /\ IdleReady /\ IdleValid /\ IdlePublish /\ IdleConfig /\ IdleReads /\ IdlePrepare /\ IdleSweep

SpecHandler == InitSpecHandler /\ [][NextHandler]_vars

\* what the recording of outcomes leaves alone
ReportRest ==
    <<rateVars, hist, st_op, st_ret, readyVars, validVars, pubVars,
      is_shutting_down, loop_owner, disk, task, confVars, readVars, prepVars, sweepVars>>

\* tasks ending one after the other, as successes or as failures
NextReport ==
    \/ ReportTick /\ UNCHANGED ReportRest
    \/ CompleteSuccess /\ UNCHANGED ReportRest
    \/ CompleteFailure /\ UNCHANGED ReportRest

InitSpecReport ==
    /\ InitReport
    /\ hist = NoHistory
    /\ st_op = "init"
    /\ st_ret = FALSE
    /\ IdleRate /\ IdleReady /\ IdleValid /\ IdlePublish /\ IdleTasks /\ IdleConfig /\ IdleReads /\ IdlePrepare /\ IdleSweep

SpecReport == InitSpecReport /\ [][NextReport]_vars

(***************************************************************************)
(* Claims                                                                  *)
(***************************************************************************)
\* C1: in any interleaving of tasks in the rate limiter, no more than K
\* acquires complete within any 1-second sliding window, that is, any K+1
\* completed acquires span at least one second.
C1_RateWindowBound ==
    \A i \in 1..Len(acq_log) :
        (i + K <= Len(acq_log)) => (acq_log[i + K] - acq_log[i] >= OneSecond)

\* C2: after each record call the daily counters equal the outcomes
\* recorded since the most recent midnight and the total counters equal the
\* outcomes recorded over the whole sequence.
C2_CountersMatchHistory ==
    (st_op \in {"increment_success", "increment_error"}) =>
        /\ stats.daily_success = hist.daily_success
        /\ stats.daily_errors = hist.daily_errors
        /\ stats.total_success = hist.total_success
        /\ stats.total_errors = hist.total_errors

\* a record call on a later day than earlier records of both kinds
C2_Witness ==
    /\ st_op = "increment_success"
    /\ Midnight(now_msk) > 0
    /\ hist.daily_success = 1
    /\ hist.daily_errors = 0
    /\ hist.total_success > 1
    /\ hist.total_errors > 0

\* C3: should_log_stats returns true if and only if the number of recorded
\* outcomes is positive and divisible by the report interval; it is false
\* before any outcome is recorded.
C3_ShouldReportIff ==
    (st_op = "should_log_stats") =>
        (st_ret <=> (Recorded > 0 /\ Recorded % report_interval = 0))

\* the report test answered true at the first multiple of the interval,
\* reached by outcomes of both kinds
C3_Witness ==
    /\ st_op = "should_log_stats"
    /\ st_ret = TRUE
    /\ Recorded = report_interval
    /\ hist.total_success > 0
    /\ hist.total_errors > 0

\* C4: the rollover check run twice in immediate succession leaves the
\* counters and the boundary as after the first run, and the second run
\* performs no reset.
C4_RolloverIdempotent ==
    LET once == check_and_reset_daily(stats, now_msk)
    IN  /\ check_and_reset_daily(once, now_msk) = once
        /\ ~NeedsReset(once, Midnight(now_msk))

\* a state in which the first run does reset non-empty daily counters
C4_Witness ==
    /\ NeedsReset(stats, Midnight(now_msk))
    /\ stats.daily_success > 0
    /\ stats.daily_errors > 0
    /\ check_and_reset_daily(stats, now_msk).daily_success = 0

\* C5 (as stated): the forced rollover followed by the lazy check, and the
\* lazy check followed by the forced rollover, both yield the state of the
\* lazy check alone.
C5_ForcedEqualsLazy ==
    LET lazy == check_and_reset_daily(stats, now_msk)
    IN  /\ check_and_reset_daily(reset_daily_stats(stats, now_msk), now_msk) = lazy
        /\ reset_daily_stats(lazy, now_msk) = lazy

\* C5 (amended): the forced rollover absorbs the lazy check: in either
\* order the two yield the state of the forced rollover alone (daily
\* counters 0, boundary at today's midnight, totals untouched), which is
\* the state of the lazy check alone exactly when the daily counters
\* after the lazy check are both 0.
C5_ForcedAbsorbsLazy ==
    LET lazy == check_and_reset_daily(stats, now_msk)
        forced == reset_daily_stats(stats, now_msk)
    IN  /\ check_and_reset_daily(forced, now_msk) = forced
        /\ reset_daily_stats(lazy, now_msk) = forced
        /\ forced.daily_success = 0
        /\ forced.daily_errors = 0
        /\ forced.daily_reset_date = Midnight(now_msk)
        /\ forced.total_success = stats.total_success
        /\ forced.total_errors = stats.total_errors
        /\ (forced = lazy) <=> (lazy.daily_success = 0 /\ lazy.daily_errors = 0)

\* a forced rollover has run on a day with recorded outcomes and has
\* emptied the daily counters
C5_Witness ==
    /\ st_op = "reset_daily_stats"
    /\ hist.daily_success > 0
    /\ hist.daily_errors > 0
    /\ stats.daily_success = 0
    /\ stats.daily_errors = 0
    /\ stats.daily_reset_date = Midnight(now_msk)

\* the latest attempt before attempt i that read the file successfully
\* (attempts are numbered from 1 in the history), 0 if there is none
PrevRead(i) ==
    LET earlier == {j \in 1..(i - 1) : wf_obs[j].kind = "ok"}
    IN  IF earlier = {} THEN 0
        ELSE CHOOSE j \in earlier : \A k \in earlier : k <= j

\* attempt i is not the first attempt, reads the file successfully and
\* observes the size of the previous observation
RepeatsSize(i) ==
    /\ i > 1
    /\ wf_obs[i].kind = "ok"
    /\ PrevRead(i) # 0
    /\ wf_obs[PrevRead(i)].size = wf_obs[i].size

\* C6: wait_for_file_ready returns false when no attempt up to
\* max_attempts observes the size of the previous observation, and
\* otherwise returns true on the first attempt (not attempt 0) whose
\* successful read observes the same non-zero size as the previous
\* observation, without further attempts.
C6_ReadyOnFirstRepeat ==
    /\ \A i \in 1..(Len(wf_obs) - 1) : ~RepeatsSize(i)
    /\ (wf_pc = "loop") => (\A i \in 1..Len(wf_obs) : ~RepeatsSize(i))
    /\ (wf_pc = "done" /\ wf_ret) =>
           /\ Len(wf_obs) >= 2
           /\ RepeatsSize(Len(wf_obs))
           /\ wf_obs[Len(wf_obs)].size > 0
    /\ (wf_pc = "done" /\ ~wf_ret) =>
           /\ Len(wf_obs) = wf_max_attempts
           /\ \A i \in 1..Len(wf_obs) : ~RepeatsSize(i)

\* the size changed between the first two reads and repeated on the third
C6_Witness ==
    /\ wf_pc = "done"
    /\ wf_ret = TRUE
    /\ Len(wf_obs) = 3
    /\ wf_obs[1].kind = "ok"
    /\ wf_obs[2].kind = "ok"
    /\ wf_obs[1].size < wf_obs[2].size
    /\ wf_obs[3].size = wf_obs[2].size

\* two suffixes are equal up to the case of their letters
SameIgnoringCase(a, b) ==
    /\ Len(a) = Len(b)
    /\ \A i \in 1..Len(a) : LowerChar(a[i]) = LowerChar(b[i])

ExtensionAllowed(f) == \E a \in ALLOWED_EXTENSIONS : SameIgnoringCase(f.suffix, a)

SizeInBounds(f) ==
    /\ ~f.stat_fails
    /\ f.size >= MIN_FILE_SIZE_BYTES
    /\ f.size <= MAX_FILE_SIZE_BYTES

\* the checks in the order of the claim (reading the size is part of the
\* size check), cut after the first one that fails
ChecksInOrder(f) ==
    IF ~f.exists THEN <<"exists">>
    ELSE IF ~ExtensionAllowed(f) THEN <<"exists", "extension">>
    ELSE IF f.stat_fails THEN <<"exists", "extension", "stat">>
    ELSE IF f.size < MIN_FILE_SIZE_BYTES
         THEN <<"exists", "extension", "stat", "min_size">>
    ELSE <<"exists", "extension", "stat", "min_size", "max_size">>

\* C9: validate_image_file returns true exactly when the file exists, its
\* suffix is in the allow-list up to case and its size can be read and lies
\* in [MIN, MAX]; the checks run in that order and stop at the first one
\* that fails, so an empty file with an allowed suffix is rejected at the
\* lower bound without the upper-bound comparison.
C9_ValidateOrdered ==
    (vf_pc = "done") =>
        /\ vf_ret <=> (vf_file.exists /\ ExtensionAllowed(vf_file) /\ SizeInBounds(vf_file))
        /\ vf_checks = ChecksInOrder(vf_file)
        /\ (vf_file.exists /\ ExtensionAllowed(vf_file) /\ ~vf_file.stat_fails
              /\ vf_file.size = 0) =>
                (~vf_ret /\ vf_checks[Len(vf_checks)] = "min_size")

\* an empty file with an allowed suffix in upper case has been rejected
C9_Witness ==
    /\ vf_pc = "done"
    /\ vf_file.exists
    /\ vf_file.suffix = <<".", "J", "P", "G">>
    /\ ~vf_file.stat_fails
    /\ vf_file.size = 0
    /\ vf_ret = FALSE

\* an attempt that ended in a transient condition: an empty or missing
\* photo token, or a network error
Transient(o) == o.kind \in {"empty", "neterr"}

\* C7: if the upload attempts before attempt i each end in a transient
\* condition and attempt i <= max_retries returns a non-empty photo token,
\* _upload_image returns the (server, photo, hash) of attempt i without
\* raising, after exactly i upload requests and with no attempt after i.
C7_UploadReturnsFirstToken ==
    LET n == Len(pub_uploads)
    IN  /\ \A j \in 1..(n - 1) : pub_uploads[j].kind # "ok"
        /\ (n < max_retries /\ \A j \in 1..n : Transient(pub_uploads[j])) =>
               pub_up \in {"idle", "running"}
        /\ (/\ n >= 1
            /\ pub_uploads[n].kind = "ok"
            /\ \A j \in 1..(n - 1) : Transient(pub_uploads[j])) =>
               /\ n <= max_retries
               /\ pub_up = "returned"
               /\ pub_up_ret = pub_uploads[n].payload
               /\ pub_up_ret.photo # ""
               /\ pub_requests.upload = n

\* empty photo token on attempts 1 and 2, a token on attempt 3
C7_Witness ==
    /\ pub_up = "returned"
    /\ Len(pub_uploads) = max_retries
    /\ pub_uploads[1].kind = "empty"
    /\ pub_uploads[2].kind = "empty"
    /\ pub_uploads[3].kind = "ok"
    /\ pub_up_ret = pub_uploads[3].payload
    /\ pub_requests.upload = 3

\* C8: after an error-bearing response of the save step the publish has
\* returned the failure value, the local file is still on disk and no
\* wall-post request was issued.
C8_SaveErrorFails ==
    (pub_steps.save = "error") =>
        /\ pub_pc = "returned"
        /\ pub_result = NoResult
        /\ pub_on_disk
        /\ pub_requests.post = 0
        /\ pub_steps.post = "none"
        /\ pub_steps.cleanup = "none"

\* the upload succeeded on a retry and the save step was then rejected
C8_Witness ==
    /\ pub_pc = "returned"
    /\ pub_steps.save = "error"
    /\ pub_up = "returned"
    /\ Len(pub_uploads) = 2
    /\ pub_requests.save = 1
    /\ pub_on_disk

\* C10: create_post_from_wall never ends by raising: whatever the outcome
\* of validation and of the four remote steps, it returns None or the post
\* result, and it returns None whenever a step raised.
C10_PublishNeverRaises ==
    /\ pub_pc # "raised"
    /\ (pub_exc # "none") => (pub_pc = "returned" /\ pub_result = NoResult)
    /\ (pub_pc = "returned") =>
           pub_result \in {NoResult, PostResult(TRUE), PostResult(FALSE)}

\* a network error on the last upload attempt was turned into None
C10_Witness ==
    /\ pub_pc = "returned"
    /\ pub_up = "raised"
    /\ pub_exc = "RequestException"
    /\ Len(pub_uploads) = max_retries
    /\ pub_result = NoResult

\* the steps of the publish in the order they ran, limiter calls left out
StepsRun == SelectSeq(pub_trace, LAMBDA x : x # "acquire")

\* position of a step in Idle, GetTarget, Uploading, Saving, Posting, Done
Rank(step) ==
    CASE step = "get_url" -> 1
      [] step = "upload" -> 2
      [] step = "save" -> 3
      [] step = "post" -> 4
      [] step = "cleanup" -> 5

C14_AcquireBeforeEachRequest ==
    \A i \in 1..Len(pub_trace) :
        (pub_trace[i] \in {"get_url", "upload", "save", "post"}) =>
            (i > 1 /\ pub_trace[i - 1] = "acquire")

\* C20: the upload step issues at most max_retries upload requests; it
\* raises only on attempt number max_retries; and when each of the
\* max_retries attempts ended with an empty photo token or a network error
\* it has issued exactly max_retries requests and has raised.
C20_UploadAttemptsBounded ==
    LET n == Len(pub_uploads)
    IN  /\ pub_requests.upload <= max_retries
        /\ n <= max_retries
        /\ (pub_up = "raised") => (n = max_retries)
        /\ (n = max_retries
            /\ \A j \in 1..n : pub_uploads[j].kind \in {"empty", "neterr"}) =>
               /\ pub_up = "raised"
               /\ pub_requests.upload = max_retries
               /\ pub_exc = upload_raises(pub_uploads[n].kind)
               /\ pub_pc = "returned"
               /\ pub_requests.save = 0

\* a network error, an empty token and a network error again
C20_Witness ==
    /\ pub_up = "raised"
    /\ Len(pub_uploads) = max_retries
    /\ pub_uploads[1].kind = "neterr"
    /\ pub_uploads[2].kind = "empty"
    /\ pub_uploads[3].kind = "neterr"
    /\ pub_requests.upload = max_retries
    /\ pub_exc = "RequestException"

\* a step of handler u, whatever the outcome of what it awaited
TaskStep(u) ==
    \/ \E f \in FileIds, allowed \in BOOLEAN : Arrive(u, f, allowed)
    \/ \E ok \in BOOLEAN : Download(u, ok)
    \/ \E ok \in BOOLEAN : Prepare(u, ok)
    \/ \E ok \in BOOLEAN : AckNotReady(u, ok)
    \/ \E ok \in BOOLEAN, valid \in BOOLEAN : Notify(u, ok, valid)
    \/ \E valid \in BOOLEAN : RateWake(u, valid)
    \/ \E o \in HandlerOutcomes : GetUploadUrl(u, o)
    \/ \E kind \in HandlerUploadKinds : UploadAttempt(u, kind)
    \/ BackoffEnd(u)
    \/ \E o \in HandlerOutcomes : SavePhoto(u, o)
    \/ \E o \in HandlerPostOutcomes : WallPost(u, o)
    \/ \E o \in CleanupOutcomes : Cleanup(u, o)
    \/ \E ok \in BOOLEAN : AckSuccess(u, ok)
    \/ \E ok \in BOOLEAN : AckFailure(u, ok)
    \/ \E ok \in BOOLEAN : AckException(u, ok)

\* what handler u waits for has happened: its message was delivered, its
\* awaited call has returned, its sleep is over
Ready(u) ==
    /\ task[u].pc \notin {"done", "rejected"}
    /\ (task[u].pc = "rate_sleep") => (clock >= task[u].wake)

\* positions inside the remote steps of a publish
RemotePcs == {"get_url", "upload", "backoff", "save", "post", "cleanup"}

\* C11: a task whose file failed prepare_file_for_upload, or failed the
\* re-validation inside create_post_from_wall, has issued no remote
\* request, has started no upload attempt and is at none of the remote
\* steps.
C11_NoRemoteAfterFailedCheck ==
    \A t \in Handlers :
        (task[t].prepared = "failed" \/ task[t].validated = "invalid") =>
            /\ ~task[t].requested
            /\ task[t].attempt = 0
            /\ task[t].pc \notin RemotePcs
            /\ task[t].cleanup = "none"
            /\ task[t].result \in {"none", "None"}

\* one task ended at the preparation, the other at the re-validation
C11_Witness ==
    \E t, u \in Handlers :
        /\ task[t].pc = "done" /\ task[t].prepared = "failed"
        /\ task[t].reported = "not_ready"
        /\ task[u].pc = "done" /\ task[u].validated = "invalid"
        /\ task[u].acquires = 1
        /\ task[u].recorded = "error"

\* C12: a finished task that was recorded as an error has not removed its
\* file, and a finished task that was reported as a success has called the
\* cleanup.
C12_DeletesIffSuccess ==
    \A t \in Handlers :
        (task[t].pc = "done") =>
            /\ (task[t].recorded = "error") => (task[t].cleanup # "removed")
            /\ (task[t].reported = "success") => (task[t].cleanup # "none")

\* C15: while a task is in the sleep between two upload attempts, every
\* other task whose awaited event has happened can take its next step.
C15_BackoffDoesNotBlock ==
    \A t, u \in Handlers :
        (t # u /\ task[t].pc = "backoff" /\ Ready(u)) => ENABLED TaskStep(u)

\* C16: a task that arrived with the shutdown flag set was rejected with
\* no download, no limiter call, no remote request and no statistics
\* update; a task accepted earlier is never held up by the flag, its next
\* step stays possible whenever the event loop is free for it; and a
\* finished task has recorded a success or an error.
C16_FlagReadAtEntryOnly ==
    \A t \in Handlers :
        /\ task[t].entry_flag =>
              /\ task[t].pc = "rejected"
              /\ task[t].reported = "shutdown"
              /\ task[t].fid = 0
              /\ task[t].prepared = "none"
              /\ task[t].acquires = 0
              /\ ~task[t].requested
              /\ task[t].recorded = "none"
        /\ (is_shutting_down /\ Ready(t) /\ task[t].pc # "waiting"
            /\ loop_owner \in {NoOwner, t}) => ENABLED TaskStep(t)
        /\ (task[t].pc = "done") => (task[t].recorded \in {"success", "error"})

\* the flag was set while one task was in flight: that task went on to its
\* success, and a task that arrived later was rejected
C16_Witness ==
    \E t, u \in Handlers :
        /\ is_shutting_down
        /\ task[t].entry_flag /\ task[t].pc = "rejected"
        /\ ~task[u].entry_flag
        /\ task[u].pc = "done"
        /\ task[u].recorded = "success"
        /\ stats.total_success = 1 /\ stats.total_errors = 0

\* C17: the number of report lines logged equals the number of positive
\* multiples of the report interval that the completed count has reached.
C17_ReportEveryN ==
    reports = (stats.total_success + stats.total_errors) \div report_interval

\* C18: no task had its file overwritten or removed by another task between
\* the end of its download and the return of its publish.
C18_FileOwnedByTask ==
    \A t \in Handlers : ~task[t].clobbered

\* handlers that have recorded the given outcome
RecordedAs(kind) == {t \in Handlers : task[t].recorded = kind}

\* handlers that recorded the given outcome in the current statistics day
RecordedToday(kind) ==
    {t \in RecordedAs(kind) : task[t].rec_day = stats.daily_reset_date}

\* C19: in every interleaving of the handlers, of snapshots and of clock
\* advances, the totals equal the numbers of record calls made, and the
\* daily counters equal the numbers of record calls made since the
\* boundary stored with them, which is never ahead of the clock.
C19_NoLostUpdate ==
    /\ stats.total_success = Cardinality(RecordedAs("success"))
    /\ stats.total_errors = Cardinality(RecordedAs("error"))
    /\ stats.daily_success = Cardinality(RecordedToday("success"))
    /\ stats.daily_errors = Cardinality(RecordedToday("error"))
    /\ stats.daily_reset_date # NoDate
    /\ stats.daily_reset_date <= Midnight(now_msk)

\* an error recorded before midnight and a success recorded after it
C19_Witness ==
    \E t, u \in Handlers :
        /\ task[t].pc = "done" /\ task[u].pc = "done"
        /\ task[t].recorded = "error" /\ task[t].rec_day = 0
        /\ task[u].recorded = "success" /\ task[u].rec_day = DayLen
        /\ stats.daily_reset_date = DayLen
        /\ stats.total_success = 1 /\ stats.total_errors = 1
        /\ stats.daily_success = 1 /\ stats.daily_errors = 0

\* C21: the seconds slept by the upload loop are 1 after a failed attempt
\* 1 and 2 after a failed attempt 2, with no sleep after the last attempt:
\* before attempt a the loop has slept 2^(a-1) - 1 seconds in all, an
\* upload that returned on attempt i has slept 2^(i-1) - 1 seconds, and an
\* upload that raised has slept 2^(max_retries-1) - 1 seconds.
C21_BackoffDoubles ==
    /\ (pub_up = "running") => (pub_backoff = 2^(pub_attempt - 1) - 1)
    /\ (pub_up = "returned") => (pub_backoff = 2^(Len(pub_uploads) - 1) - 1)
    /\ (pub_up = "raised") => (pub_backoff = 2^(max_retries - 1) - 1)
    /\ (pub_up = "idle") => (pub_backoff = 0)

\* an upload that returned on its third attempt after sleeping 1 + 2 seconds
C21_Witness ==
    /\ pub_up = "returned"
    /\ Len(pub_uploads) = max_retries
    /\ pub_backoff = 3
    /\ pub_attempt = 3

\* C22: wait_for_file_ready returns true only when the last two attempts
\* both read the file successfully and observed the same size.
C22_ReadyNeedsConsecutiveReads ==
    (wf_pc = "done" /\ wf_ret) =>
        LET n == Len(wf_obs)
        IN  /\ n >= 2
            /\ wf_obs[n].kind = "ok"
            /\ wf_obs[n - 1].kind = "ok"
            /\ wf_obs[n - 1].size = wf_obs[n].size

\* the window is full and its oldest timestamp is less than a second old
FullAndYoung == Len(request_times) = K /\ clock - request_times[1] < OneSecond

\* what a step of the single caller does to the rate limiter
C23_Step ==
    /\ (rl_pc[1] = "idle" /\ rl_pc'[1] = "sleeping") =>
          /\ FullAndYoung
          /\ rl_wake'[1] - clock = SleepTarget - (clock - request_times[1])
          /\ acq_log' = acq_log
    /\ (rl_pc[1] = "idle" /\ rl_pc'[1] = "idle" /\ clock' = clock) =>
          /\ ~FullAndYoung
          /\ acq_log' = Append(acq_log, clock)
          /\ Len(request_times') = IF Len(request_times) = K THEN K
                                   ELSE Len(request_times) + 1
          /\ request_times'[Len(request_times')] = clock
    /\ (rl_pc[1] = "sleeping" /\ rl_pc'[1] = "idle") =>
          /\ clock >= rl_wake[1]
          /\ acq_log' = Append(acq_log, clock)
          /\ Len(request_times') = K
          /\ request_times'[K] = clock
    /\ \A i \in 1..Len(acq_log') :
          (i + K <= Len(acq_log')) =>
              (acq_log'[i + K] >= acq_log'[i] + OneSecond)

\* C23: a call of the rate limiter by a single sequential caller sleeps
\* only when the window holds K timestamps and the oldest is less than one
\* second old, and then for exactly 1.1 s minus the age of the oldest; every
\* call appends exactly one timestamp, the time at which it completes; and
\* the completion of a call is at least one second after the completion of
\* the K-th call before it.
C23_SequentialAcquire == [][C23_Step]_vars

\* three calls at time 0 and a fourth that slept until 1.1 s
C23_Witness ==
    /\ Len(acq_log) = K + 1
    /\ acq_log[K] = 0
    /\ acq_log[K + 1] = SleepTarget
    /\ rl_pc[1] = "idle"

\* the timestamps of the window are in non-decreasing order
WindowOrdered ==
    \A i \in 1..(Len(request_times) - 1) : request_times[i] <= request_times[i + 1]

\* the window is the last timestamps of the history of completed calls
WindowIsLatest ==
    LET n == Len(request_times)
        m == Len(acq_log)
    IN  /\ n <= m
        /\ \A i \in 1..n : request_times[i] = acq_log[m - n + i]

\* C24: the window never holds more timestamps than the configured
\* requests-per-second ceiling; it holds the latest timestamps recorded, in
\* the order they were recorded, the oldest being dropped when a timestamp
\* is recorded into a full window; and its timestamps are non-decreasing.
C24_WindowBounded ==
    /\ Len(request_times) <= rate_limit_per_second
    /\ WindowIsLatest
    /\ WindowOrdered

\* what a step does to the counters
C25_Step ==
    /\ stats'.total_success >= stats.total_success
    /\ stats'.total_errors >= stats.total_errors
    /\ (st_op' \in {"get_dict", "reset_daily_stats", "should_log_stats", "tick"}
        /\ st_op' # st_op) =>
          /\ stats'.total_success = stats.total_success
          /\ stats'.total_errors = stats.total_errors
    /\ (stats'.daily_success < stats.daily_success
        \/ stats'.daily_errors < stats.daily_errors) =>
          /\ stats'.daily_success + stats'.daily_errors <= 1
          /\ stats'.daily_reset_date = Midnight(now_msk)
          /\ stats'.total_success + stats'.total_errors
                 >= stats.total_success + stats.total_errors

\* C25: no operation of the statistics (record, snapshot, lazy rollover,
\* forced rollover) decreases total_success or total_errors; a snapshot or
\* a forced rollover leaves both unchanged; and the daily counters
\* decrease only in a rollover, which restarts them from 0 and leaves the
\* totals alone.
C25_TotalsNeverDecrease == [][C25_Step]_vars

\* a snapshot after midnight emptied the daily bucket and kept the totals
C25_Witness ==
    /\ st_op = "get_dict"
    /\ stats.daily_reset_date = Midnight(now_msk)
    /\ stats.daily_reset_date > 0
    /\ stats.daily_success = 0 /\ stats.daily_errors = 0
    /\ stats.total_success >= 1 /\ stats.total_errors >= 1
    /\ stats.total_success = hist.total_success
    /\ stats.total_errors = hist.total_errors

\* C26: every read rolls the daily bucket forward: after get_dict (and
\* get_report, get_log_stats), get_success_rate(use_daily=True),
\* get_total_posts(use_daily=True) or should_log_stats has run, the daily
\* bucket of the instance holds exactly the outcomes recorded since the last
\* midnight, and the daily number returned is the one of that bucket, never
\* the one of the previous day
HistDaily == hist.daily_success + hist.daily_errors

C26_ReadsRollForward ==
    /\ st_op \in {"get_dict", "get_success_rate_daily",
                  "get_total_posts_daily", "should_log_stats"} =>
          /\ stats.daily_reset_date = Midnight(now_msk)
          /\ stats.daily_success <= hist.daily_success
          /\ stats.daily_errors <= hist.daily_errors
    /\ st_op = "get_total_posts_daily" =>
          st_val.num <= HistDaily * st_val.den
    /\ (st_op = "get_success_rate_daily" /\ HistDaily = 0) =>
          st_val.num = 0

\* C27: after construction and after every record (increment_success,
\* increment_error) or snapshot (get_dict, get_report, get_log_stats),
\* daily_reset_date is the fixed-timezone midnight of the current day; it is
\* never None and never later than the current time, and with a clock that
\* does not go back no operation moves it backwards
C27_Boundary ==
    /\ stats.daily_reset_date # NoDate
    /\ stats.daily_reset_date <= now_msk
    /\ st_op \in {"init", "increment_success", "increment_error", "get_dict"}
          => stats.daily_reset_date = Midnight(now_msk)

C27_Step ==
    /\ now_msk' >= now_msk
    /\ stats'.daily_reset_date >= stats.daily_reset_date

C27_ResetDateIsMidnight == []C27_Boundary /\ [][C27_Step]_vars

C27_Witness ==
    /\ st_op = "increment_error"
    /\ Midnight(now_msk) >= 2 * DayLen
    /\ now_msk > Midnight(now_msk)
    /\ stats.daily_reset_date = Midnight(now_msk)
    /\ stats.daily_errors = 1
    /\ stats.total_errors >= 2

\* C28: get_success_rate returns 0 when the selected bucket (all-time or
\* daily) holds no outcome and success * 100 / (success + errors) of that
\* bucket otherwise, so its divisor is never zero; right after a rollover
\* the daily rate is 0 even when the all-time bucket is not empty
RateOf(success, errors) ==
    IF success + errors = 0
    THEN st_val.num = 0
    ELSE st_val.num * (success + errors) = success * 100 * st_val.den

C28_SuccessRate ==
    /\ st_val.den # 0
    /\ st_op = "get_success_rate" =>
          RateOf(stats.total_success, stats.total_errors)
    /\ st_op = "get_success_rate_daily" =>
          RateOf(stats.daily_success, stats.daily_errors)

C28_Witness ==
    /\ st_op = "get_success_rate_daily"
    /\ stats.daily_reset_date = Midnight(now_msk)
    /\ stats.daily_reset_date > 0
    /\ stats.daily_success + stats.daily_errors = 0
    /\ stats.total_success > 0
    /\ stats.total_errors > 0
    /\ st_val.num = 0

\* C29: the get-upload-target, save and wall-post steps each issue one
\* request and are never repeated by create_post_from_wall; a response with
\* an "error" key or without an expected field in any of the three ends the
\* publish as a failure (None is returned, nothing further is run) after
\* exactly one request of that step
EndedAsFailure ==
    /\ pub_pc = "returned"
    /\ pub_result = NoResult
    /\ pub_steps.cleanup = "none"

C29_OneRequestEach ==
    /\ pub_requests.get_url <= 1
    /\ pub_requests.save <= 1
    /\ pub_requests.post <= 1

C29_GetUrlAndSaveRejected ==
    /\ pub_steps.get_url \in {"error", "missing"} =>
          /\ EndedAsFailure
          /\ pub_requests.get_url = 1
          /\ pub_requests.upload = 0
          /\ pub_requests.save = 0
          /\ pub_requests.post = 0
    /\ pub_steps.save \in {"error", "missing", "empty_list"} =>
          /\ EndedAsFailure
          /\ pub_requests.save = 1
          /\ pub_requests.post = 0

C29_PostRejected ==
    pub_steps.post \in {"error", "noresponse"} =>
        /\ pub_pc \in {"returned", "raised"} => EndedAsFailure
        /\ pub_pc \notin {"returned", "raised"} => pub_result = NoResult
        /\ pub_requests.post = 1

C29_SingleRequestSteps ==
    /\ C29_OneRequestEach
    /\ C29_GetUrlAndSaveRejected
    /\ C29_PostRejected

\* C30: the cleanup is best effort: once wall.post has returned the post,
\* create_post_from_wall returns that result whether os.remove removes the
\* file, finds it missing or fails otherwise; no outcome of the cleanup
\* turns the published post into a failure
C30_CleanupBestEffort ==
    (pub_steps.post = "ok" /\ pub_steps.cleanup # "none") =>
        /\ pub_steps.cleanup \in CleanupOutcomes
        /\ pub_pc = "returned"
        /\ pub_exc = "none"
        /\ pub_result = PostResult(TRUE)
        /\ pub_on_disk = (pub_steps.cleanup = "error")

C30_Witness ==
    /\ pub_pc = "returned"
    /\ pub_steps.post = "ok"
    /\ pub_steps.cleanup = "error"
    /\ pub_on_disk
    /\ pub_result = PostResult(TRUE)
    /\ pub_requests.upload = 2

\* C31: every task that passed the entry checks and has finished recorded
\* exactly one outcome, a success or an error: the counters of the
\* statistics hold one record per such task on every path, the failing
\* acknowledgments included; and the outcome recorded is a success exactly
\* when wall.post returned the post
RecordedTasks == {t \in Handlers : task[t].recorded # "none"}

C31_OneRecordPerTask ==
    /\ stats.total_success + stats.total_errors = Cardinality(RecordedTasks)
    /\ stats.total_success
           = Cardinality({t \in Handlers : task[t].recorded = "success"})
    /\ \A t \in Handlers :
          /\ task[t].pc = "done" => task[t].recorded \in {"success", "error"}
          /\ task[t].pc = "rejected" => task[t].recorded = "none"

C31_SuccessIffPublished ==
    \A t \in Handlers :
        task[t].pc = "done" =>
            (task[t].recorded = "success" <=> task[t].result = "ok")

C31_ExactlyOneOutcome == C31_OneRecordPerTask /\ C31_SuccessIffPublished

\* C32: an accepted task that ends in failure gives the user exactly one
\* acknowledgment, and the upload retries are not shown: from the
\* "uploading" status message to the final message the task sends nothing,
\* however many upload attempts are made
FailureAcks == {"not_ready", "failure", "exception"}

RECURSIVE CountIn(_, _)
CountIn(seq, S) ==
    IF seq = <<>> THEN 0
    ELSE (IF Head(seq) \in S THEN 1 ELSE 0) + CountIn(Tail(seq), S)

PublishingPcs ==
    {"rate_sleep", "get_url", "upload", "backoff", "save", "post", "cleanup",
     "ack_success", "ack_failure"}

NoIntermediateMessage ==
    \A t \in Handlers :
        /\ task[t].pc \in PublishingPcs => task[t].msgs = <<"uploading">>
        /\ task[t].pc = "done" =>
              /\ CountIn(task[t].msgs, {"uploading"}) <= 1
              /\ Len(task[t].msgs) <= 2
              /\ Len(task[t].msgs) = 2 => Head(task[t].msgs) = "uploading"

FailedTask(t) == task[t].pc = "done" /\ task[t].recorded = "error"

C33_DigestIsAdvisory ==
    /\ prep_pc = "returned" => (prep_ret <=> (wf_ret /\ vf_ret))
    /\ vf_pc = "done" => (wf_pc = "done" /\ wf_ret)
    /\ (wf_pc = "done" /\ ~wf_ret /\ prep_pc = "returned") =>
          (vf_pc = "call" /\ prep_hash = "none")
    /\ prep_hash # "none" =>
          /\ wf_ret /\ vf_ret
          /\ prep_pc = "returned" /\ prep_ret
    /\ prep_calls \in
          { <<"wait_for_file_ready">>,
            <<"wait_for_file_ready", "validate_image_file">>,
            <<"wait_for_file_ready", "validate_image_file",
              "calculate_file_hash">> }

C33_Witness ==
    /\ prep_pc = "returned"
    /\ prep_hash = "None"
    /\ prep_ret
    /\ Len(wf_obs) = 3
    /\ Len(prep_calls) = 3

\* C34: every publish terminates: create_post_from_wall returns after at
\* most one acquire with its sleep, one request each for the upload target,
\* the save and the post, and at most max_retries upload requests; and
\* wait_for_file_ready returns after at most max_attempts attempts, with
\* False when max_attempts is 0 or 1
C34_Bounded ==
    /\ pub_requests.acquire <= 1
    /\ pub_requests.get_url <= 1
    /\ pub_requests.save <= 1
    /\ pub_requests.post <= 1
    /\ pub_requests.upload <= max_retries
    /\ Len(pub_uploads) <= max_retries
    /\ Len(pub_trace) <= 5 + max_retries
    /\ CountIn(pub_trace, {"acquire"}) <= 1
    /\ wf_attempt <= wf_max_attempts
    /\ Len(wf_obs) <= wf_max_attempts
    /\ (wf_pc = "done" /\ wf_max_attempts <= 1) => ~wf_ret

C35_DailyWithinTotal ==
    /\ 0 <= stats.daily_success
    /\ stats.daily_success <= stats.total_success
    /\ 0 <= stats.daily_errors
    /\ stats.daily_errors <= stats.total_errors

C35_Witness ==
    /\ st_op = "increment_success"
    /\ stats.daily_reset_date > 0
    /\ stats.daily_success = 1
    /\ stats.total_success = 3
    /\ stats.daily_errors = 0
    /\ stats.total_errors = 2
    /\ hist.daily_errors = 1

\* C36: a photo that arrives from a chat outside the white list, or while
\* the shutdown flag is set, leaves the shared state as it was: the step
\* that rejects it downloads no file, adds no timestamp to the rate window,
\* issues no request and changes no counter, and the rejected task takes no
\* further step; with the flag set no arriving photo is accepted
C36_Step ==
    \A t \in Handlers :
        /\ (task[t].pc = "waiting" /\ task'[t].pc = "rejected") =>
              /\ task'[t].reported \in {"shutdown", "no_access"}
              /\ task'[t].msgs = <<task'[t].reported>>
              /\ UNCHANGED <<disk, request_times, clock, stats, reports,
                             loop_owner, is_shutting_down, now_msk>>
              /\ \A u \in Handlers \ {t} : task'[u] = task[u]
        /\ (task[t].pc = "waiting" /\ is_shutting_down) =>
              task'[t].pc \in {"waiting", "rejected"}
        /\ task[t].pc = "rejected" => task'[t] = task[t]

C36_Untouched ==
    \A t \in Handlers :
        task[t].pc = "rejected" =>
            /\ task[t].fid = 0
            /\ task[t].acquires = 0
            /\ ~task[t].requested
            /\ task[t].recorded = "none"

C36_RejectedLeavesNoTrace == []C36_Untouched /\ [][C36_Step]_vars

C36_Witness ==
    \E t, u \in Handlers :
        /\ task[t].pc = "rejected" /\ task[t].reported = "no_access"
        /\ ~task[t].entry_flag
        /\ task[u].pc = "rejected" /\ task[u].reported = "shutdown"
        /\ stats.total_success + stats.total_errors = 0
        /\ \A f \in FileIds : ~disk[f]
        /\ request_times = <<0, 0, 0>>

\* C37: the sweeper deletes a temp file only if its age exceeds
\* max_age_hours: every file a sweep removed was older than the limit when
\* the sweep read the clock, a file not older than the limit is never
\* removed by a sweep, and when a sweep is over no file older than the
\* limit is left in temp_dir
AgeLimit == cleanup_age_hours * TicksPerHour

OnlyOldRemoved ==
    \A i \in 1..Len(sw_log) :
        /\ sw_log[i].seen > AgeLimit
        /\ sw_log[i].age >= sw_log[i].seen

OldLeftBehind ==
    {p \in SweepPaths :
        sw_files[p].present /\ sw_at - sw_files[p].mtime > AgeLimit}

====
